---- MODULE Spec2Model ----
(***************************************************************************)
(* Model of the startup ETL pipeline: extract (CSV reader with the         *)
(* incremental filter, enrichment lookups), transform (entity merge, job   *)
(* history derivation, foreign-key repair) and load (batched upsert).      *)
(*                                                                         *)
(* Data representation.  A cell of a DataFrame is an option: Null (NaN /   *)
(* None / NaT) is the empty set and a present value v is the singleton     *)
(* {v}.  A row is a function from column names to cells, a DataFrame is a  *)
(* sequence of rows with the same columns, a Python dict that is iterated  *)
(* is a sequence of <<key, value>> pairs in insertion order, and a         *)
(* database relation is a function from primary key to stored row.         *)
(***************************************************************************)
EXTENDS Integers, Sequences, FiniteSets, TLC

VARIABLES
    pc,           \* position of the run (which stage executes next)
    mode,         \* [incremental, client]: the run's mode flags
    clock,        \* datetime.now(), in days
    files,        \* the three CSV files: [organizations, people, jobs]
    api,          \* the enrichment service: [org, person], key -> payload
    db,           \* committed relations: [organizations, people, jobs]
    extracted,    \* result of extract_all_data
    transformed,  \* result of transform_all_data
    loader,       \* progress of load_all_data
    fetch,        \* a batch fetch of the enrichment client in progress
    run_state,    \* pipeline_state of the run and the run-state files
    hist          \* history of the run kept for stating properties

vars == <<pc, mode, clock, files, api, db, extracted, transformed, loader,
          fetch, run_state, hist>>

\* what no stage of a run writes: the mode, the files and the service
env == <<mode, files, api>>

----------------------------------------------------------------------------
(* Cells, rows and tables *)

Null == {}
Some(v) == {v}
IsNa(cell) == cell = Null
Val(cell) == CHOOSE v \in cell : TRUE

\* dict.get(f): the value under f, None when the key is absent
Get(d, f) == IF f \in DOMAIN d THEN d[f] ELSE Null

\* Series.fillna(other): the left cell unless it is NaN
FillnaApiFirst(a, b) == IF IsNa(b) THEN a ELSE b
Fillna(a, b) == IF IsNa(a) THEN b ELSE a

\* row with column c set to cell v (the column is added when absent)
SetCol(row, c, v) == [k \in DOMAIN row \cup {c} |-> IF k = c THEN v ELSE row[k]]

Range(s) == {s[i] : i \in 1..Len(s)}

RECURSIVE Flatten(_)
Flatten(ss) == IF ss = <<>> THEN <<>> ELSE Head(ss) \o Flatten(Tail(ss))

\* the subsequence of s at the (sorted) positions idx
RECURSIVE SubSeqAt(_, _, _)
SubSeqAt(s, idx, i) ==
    IF i > Len(s) THEN <<>>
    ELSE (IF i \in idx THEN <<s[i]>> ELSE <<>>) \o SubSeqAt(s, idx, i + 1)

Filter(s, keep(_)) == SubSeqAt(s, {i \in 1..Len(s) : keep(s[i])}, 1)

MapSeq(s, f(_)) == [i \in 1..Len(s) |-> f(s[i])]

\* keys of a dict given as a sequence of <<key, value>> pairs
Keys(d) == {d[i][1] : i \in 1..Len(d)}

----------------------------------------------------------------------------
(* Field mappings between the enrichment payload and the CSV schema *)

ORGANIZATION_FIELD_MAPPINGS ==
    [state |-> "region", country |-> "country_code",
     street_address |-> "address", website_url |-> "homepage_url"]

PEOPLE_FIELD_MAPPINGS == [state |-> "reigon", country |-> "country_code"]

MapField(mapping, f) == IF f \in DOMAIN mapping THEN mapping[f] ELSE f

\* the payload fields the organization api_row names explicitly (those of
\* the modelled columns) and the ones of the people api_row
OrgApiRowFields == {"name", "industry", "state", "total_funding"}
PeopleApiRowFields == {"name", "headline", "state"}

----------------------------------------------------------------------------
(* Entity merge: _merge_api_org_data / _merge_api_people_data *)

\* One api_row: the key, the explicitly named payload fields, source 'api',
\* then every payload field written under its CSV name (this overwrites an
\* earlier entry of the same name, the key column included).
ApiRow(key, payload, keycol, explicit, mapping) ==
    LET base == [c \in explicit \cup {keycol, "source"} |->
                    IF c = keycol THEN Some(key)
                    ELSE IF c = "source" THEN Some("api")
                    ELSE Get(payload, c)]
        mapped == {MapField(mapping, f) : f \in DOMAIN payload}
    IN  [c \in DOMAIN base \cup mapped |->
            IF c \in mapped
            THEN payload[CHOOSE f \in DOMAIN payload : MapField(mapping, f) = c]
            ELSE base[c]]

\* api_rows: one row per record of api_data, falsy records skipped
ApiRows(api_data, keycol, explicit, mapping) ==
    LET truthy == Filter(api_data, LAMBDA kv : DOMAIN kv[2] # {})
    IN  MapSeq(truthy, LAMBDA kv : ApiRow(kv[1], kv[2], keycol, explicit, mapping))

\* pd.DataFrame(api_rows): every row gets every column, NaN where absent
ApiFrame(api_rows) ==
    LET cols == UNION {DOMAIN api_rows[i] : i \in 1..Len(api_rows)}
    IN  MapSeq(api_rows, LAMBDA r : [c \in cols |-> Get(r, c)])

FrameCols(df) == UNION {DOMAIN df[i] : i \in 1..Len(df)}

\* One row of pd.merge(how='left', suffixes=('', '_api')) followed by the
\* fill loop: a column of both frames keeps the CSV cell unless it is NaN,
\* a column of the API frame alone is added as it is.
JoinRow(frow, arow, apicols, keycol) ==
    [c \in DOMAIN frow \cup apicols |->
        IF c \notin DOMAIN frow THEN arow[c]
        ELSE IF c \in apicols /\ c # keycol THEN Fillna(frow[c], arow[c])
        ELSE frow[c]]

\* The left join and the fill loop over the whole frame: a CSV row is
\* paired with every API row of the same key (NaN keys match each other, as
\* in pandas), in API order, and kept once with NaN cells when none matches.
LeftJoinFill(df, api_df, keycol) ==
    LET apicols == FrameCols(api_df)
        nan == [c \in apicols |-> Null]
        matches(frow) == Filter(api_df, LAMBDA a : a[keycol] = frow[keycol])
        joined(frow) ==
            IF matches(frow) = <<>> THEN <<JoinRow(frow, nan, apicols, keycol)>>
            ELSE MapSeq(matches(frow), LAMBDA a : JoinRow(frow, a, apicols, keycol))
    IN  Flatten(MapSeq(df, joined))

\* merged_df.loc[merged_df[key].isin(api_data.keys()), 'source'] = 'csv+api'
TagSource(merged, api_data, keycol) ==
    MapSeq(merged, LAMBDA r :
        IF ~IsNa(r[keycol]) /\ Val(r[keycol]) \in Keys(api_data)
        THEN SetCol(r, "source", Some("csv+api")) ELSE r)

MergeApiData(df, api_data, keycol, explicit, mapping) ==
    IF api_data = <<>> THEN df
    ELSE LET api_rows == ApiRows(api_data, keycol, explicit, mapping)
         IN  IF api_rows = <<>> THEN df
             ELSE TagSource(LeftJoinFill(df, ApiFrame(api_rows), keycol),
                            api_data, keycol)

MergeApiOrgData(org_df, api_data) ==
    MergeApiData(org_df, api_data, "domain", OrgApiRowFields,
                 ORGANIZATION_FIELD_MAPPINGS)

MergeApiPeopleData(people_df, api_data) ==
    MergeApiData(people_df, api_data, "linkedin_url", PeopleApiRowFields,
                 PEOPLE_FIELD_MAPPINGS)

----------------------------------------------------------------------------
(* Field cleaning: _standardize_names, str.lower().str.strip(), to_datetime *)

\* re.sub(r'\s+', ' ', str(value).strip()) on the strings of the model
CollapseSpaces(s) ==
    CASE s = " Acme  Inc " -> "Acme Inc"
      [] s = "Chief  Exec" -> "Chief Exec"
      [] OTHER -> s

StandardizeNames(cell) == IF IsNa(cell) THEN Null ELSE Some(CollapseSpaces(Val(cell)))

\* str.lower().str.strip() on the domains of the model
LowerStrip(s) ==
    CASE s = "A.com " -> "a.com"
      [] OTHER -> s

NormalizeDomain(cell) == IF IsNa(cell) THEN Null ELSE Some(LowerStrip(Val(cell)))

\* pd.to_datetime(errors='coerce') on the date texts of the model: a date is
\* kept as its ISO text, another spelling of it is brought to that text and
\* an unparsable value becomes NaT
ParseDate(v) ==
    CASE v = "01/01/2020" -> Some("2020-01-01")
      [] v = "not a date" -> Null
      [] OTHER -> Some(v)

ToDatetime(cell) == IF IsNa(cell) THEN Null ELSE ParseDate(Val(cell))

----------------------------------------------------------------------------
(* Job history derivation: _enrich_jobs_with_api_data *)

\* Series.isin(values): NaN is in a list that holds NaN
IsIn(cell, cells) == cell \in cells

ColCells(df, c) == {df[i][c] : i \in 1..Len(df)}

\* f"api-{person_uuid}-{n}"
ApiJobUuid(person_uuid, n) ==
    CASE person_uuid = "p1" -> <<"api-p1-0", "api-p1-1", "api-p1-2", "api-p1-3", "api-p1-4", "api-p1-5">>[n + 1]
      [] person_uuid = "p2" -> <<"api-p2-0", "api-p2-1", "api-p2-2", "api-p2-3", "api-p2-4", "api-p2-5">>[n + 1]
      [] OTHER -> <<"api-p3-0", "api-p3-1", "api-p3-2", "api-p3-3", "api-p3-4", "api-p3-5">>[n + 1]

\* linkedin_to_uuid: dict(zip(uuid, linkedin_url)) keeps, for a uuid, the
\* url of its last row, in the order the uuids first occur; the inverted
\* dict keeps, for a url, the last such uuid.
FirstIdx(df, u) == CHOOSE i \in 1..Len(df) : df[i].uuid = u /\ \A j \in 1..(i - 1) : df[j].uuid # u
LastIdx(df, u) == CHOOSE i \in 1..Len(df) : df[i].uuid = u /\ \A j \in (i + 1)..Len(df) : df[j].uuid # u
UuidToLinkedin(people_df, u) == people_df[LastIdx(people_df, u)].linkedin_url
LinkedinKeys(people_df) ==
    {Val(c) : c \in {UuidToLinkedin(people_df, u) : u \in ColCells(people_df, "uuid")} \ {Null}}
LinkedinToUuid(people_df, url) ==
    LET us == {u \in ColCells(people_df, "uuid") : UuidToLinkedin(people_df, u) = Some(url)}
    IN  CHOOSE u \in us : \A w \in us : FirstIdx(people_df, w) <= FirstIdx(people_df, u)

\* One synthetic row of new_job_rows
NewJobRow(person_uuid, job, n, ts) ==
    [uuid |-> Some(ApiJobUuid(Val(person_uuid), n)),
     type |-> Some("job"),
     person_uuid |-> person_uuid,
     org_name |-> job.organization_name,
     title |-> job.title,
     started_on |-> job.start_date,
     ended_on |-> job.end_date,
     source |-> Some("api"),
     updated_at |-> Some(ts)]

RECURSIVE NewJobRowsAnyUrl(_, _, _, _)
NewJobRowsAnyUrl(history, people_df, ts, acc) ==
    IF history = <<>> THEN acc
    ELSE LET url == Head(history)[1]
             jobs == Head(history)[2]
             p == IF url \in LinkedinKeys(people_df)
                  THEN LinkedinToUuid(people_df, url) ELSE people_df[1].uuid
             rows == [k \in 1..Len(jobs) |->
                         NewJobRow(p, jobs[k], Len(acc) + k - 1, ts)]
         IN  NewJobRowsAnyUrl(Tail(history), people_df, ts, acc \o rows)

\* the loop over api_job_history.items(); acc is new_job_rows so far
RECURSIVE NewJobRows(_, _, _, _)
NewJobRows(history, people_df, ts, acc) ==
    IF history = <<>> THEN acc
    ELSE LET url == Head(history)[1]
             jobs == Head(history)[2]
         IN  IF url \notin LinkedinKeys(people_df)
             THEN NewJobRows(Tail(history), people_df, ts, acc)
             ELSE LET p == LinkedinToUuid(people_df, url)
                      rows == [k \in 1..Len(jobs) |->
                                  NewJobRow(p, jobs[k], Len(acc) + k - 1, ts)]
                  IN  NewJobRows(Tail(history), people_df, ts, acc \o rows)

\* pd.concat([a, b], ignore_index=True): the union of the columns
Concat(a, b) ==
    LET cols == FrameCols(a) \cup FrameCols(b)
    IN  MapSeq(a \o b, LAMBDA r : [c \in cols |-> Get(r, c)])

DedupSubset == {"person_uuid", "org_name", "title", "started_on", "ended_on"}

\* drop_duplicates(subset, keep='first'), NaN cells equal to each other
DropDuplicatesKeepLast(df, subset) ==
    SubSeqAt(df, {i \in 1..Len(df) :
        \A j \in (i + 1)..Len(df) : \E c \in subset : df[j][c] # df[i][c]}, 1)
DropDuplicates(df, subset) ==
    SubSeqAt(df, {i \in 1..Len(df) :
        \A j \in 1..(i - 1) : \E c \in subset : df[j][c] # df[i][c]}, 1)

EnrichJobsWithApiData(jobs_df, people_df, api_job_history, ts) ==
    LET valid == Filter(jobs_df, LAMBDA r :
                     IsIn(r.person_uuid, ColCells(people_df, "uuid")))
        new_job_rows == NewJobRows(api_job_history, people_df, ts, <<>>)
        new_jobs_df == MapSeq(new_job_rows, LAMBDA r :
                           [r EXCEPT !.started_on = ToDatetime(@),
                                     !.ended_on = ToDatetime(@)])
    IN  IF api_job_history = <<>> \/ new_job_rows = <<>> THEN valid
        ELSE DropDuplicates(Concat(valid, new_jobs_df), DedupSubset)

----------------------------------------------------------------------------
(* transform_organizations, transform_people, transform_jobs *)

TransformOrganizationsUnstamped(data, ts) ==
    LET df == MapSeq(data.csv_data, LAMBDA r :
                  [r EXCEPT !.name = StandardizeNames(@),
                            !.domain = NormalizeDomain(@)])
    IN  MergeApiOrgData(df, data.api_data)

TransformOrganizations(data, ts) ==
    LET df == MapSeq(data.csv_data, LAMBDA r :
                  [r EXCEPT !.name = StandardizeNames(@),
                            !.domain = NormalizeDomain(@),
                            !.last_processed_at = Some(ts)])
    IN  MergeApiOrgData(df, data.api_data)

TransformPeople(data, ts) ==
    LET df == MapSeq(data.csv_data, LAMBDA r :
                  [r EXCEPT !.name = StandardizeNames(@),
                            !.last_processed_at = Some(ts)])
    IN  MergeApiPeopleData(df, data.api_data)

TransformJobs(data, people_df, api_job_history, ts) ==
    LET df == MapSeq(data.csv_data, LAMBDA r :
                  [r EXCEPT !.title = StandardizeNames(@),
                            !.org_name = StandardizeNames(@),
                            !.person_name = StandardizeNames(@),
                            !.started_on = ToDatetime(@),
                            !.ended_on = ToDatetime(@),
                            !.last_processed_at = Some(ts)])
    IN  EnrichJobsWithApiData(df, people_df, api_job_history, ts)

----------------------------------------------------------------------------
(* Cross-entity repair: validate_foreign_keys *)

\* set(df['uuid'].dropna().unique())
ValidUuids(df) == ColCells(df, "uuid") \ {Null}

\* invalid organization references become NULL, the row is kept
DropInvalidRef(df, col, valid) ==
    Filter(df, LAMBDA r : IsNa(Get(r, col)) \/ IsIn(r[col], valid))
\* (a frame keeps its columns when it has no rows, so after pd.concat a row
\* that came without the column reads NaN in it)
NullInvalidRef(df, col, valid) ==
    MapSeq(df, LAMBDA r :
        IF ~IsNa(Get(r, col)) /\ ~IsIn(r[col], valid) THEN [r EXCEPT ![col] = Null] ELSE r)

\* jobs_df[jobs_df['person_uuid'].isin(valid_people_uuids)]
KeepAllJobs(jobs_df, valid_people_uuids) == jobs_df
KeepValidPerson(jobs_df, valid_people_uuids) ==
    Filter(jobs_df, LAMBDA r : IsIn(r.person_uuid, valid_people_uuids))

ValidateForeignKeys(t) ==
    LET valid_org_uuids == ValidUuids(t.organizations)
        valid_people_uuids == ValidUuids(t.people)
    IN  [organizations |-> t.organizations,
         people |-> NullInvalidRef(t.people, "featured_job_organization_uuid",
                                   valid_org_uuids),
         jobs |-> KeepValidPerson(
                      NullInvalidRef(t.jobs, "org_uuid", valid_org_uuids),
                      valid_people_uuids)]

TransformAllData(e, ts) ==
    LET organizations_df == TransformOrganizations(e.organizations, ts)
        people_df == TransformPeople(e.people, ts)
        jobs_df == TransformJobs(e.jobs, people_df, e.api_job_history, ts)
    IN  ValidateForeignKeys([organizations |-> organizations_df,
                             people |-> people_df,
                             jobs |-> jobs_df])

----------------------------------------------------------------------------
(* Timestamps: a datetime is a day number; str(Timestamp) and              *)
(* pd.to_datetime convert between it and its text                          *)

TimeTexts == <<"2024-01-01", "2024-01-02", "2024-01-03", "2024-01-04",
               "2024-01-05", "2024-01-06">>

\* str(value) of a Timestamp
StrTime(t) == TimeTexts[t]

\* pd.to_datetime(text, errors='coerce')
ParseTime(text) ==
    IF \E t \in 1..Len(TimeTexts) : TimeTexts[t] = text
    THEN Some(CHOOSE t \in 1..Len(TimeTexts) : TimeTexts[t] = text)
    ELSE Null

ToTime(cell) == IF IsNa(cell) THEN Null ELSE ParseTime(Val(cell))

----------------------------------------------------------------------------
(* Record source reader: extract_csv_data *)

\* SELECT uuid, last_processed_at FROM <table> WHERE source = 'csv'
\* (the keys of the dict last_processed)
LastProcessedKeys(relation) ==
    {k \in DOMAIN relation : relation[k].source = Some("csv")}

\* pd.to_datetime(row['updated_at']) > pd.to_datetime(last_processed[uuid])
\* (a comparison with NaT is False)
NotOlder(updated_at, stored) ==
    ~IsNa(updated_at) /\ ~IsNa(ToTime(stored)) /\ Val(updated_at) >= Val(ToTime(stored))
Newer(updated_at, stored) ==
    ~IsNa(updated_at) /\ ~IsNa(ToTime(stored)) /\ Val(updated_at) > Val(ToTime(stored))

\* the filter of incremental mode on one row
IsNewOrUpdated(row, relation) ==
    LET last_processed == LastProcessedKeys(relation)
    IN  \/ IsNa(row.uuid)
        \/ Val(row.uuid) \notin last_processed
        \/ IsNa(relation[Val(row.uuid)].last_processed_at)
        \/ Newer(row.updated_at, relation[Val(row.uuid)].last_processed_at)

ExtractCsvData(rows, relation, incremental) ==
    LET df == MapSeq(rows, LAMBDA r :
                  SetCol(SetCol([r EXCEPT !.updated_at = ToTime(@)],
                                "source", Some("csv")),
                         "last_processed_at", Null))
    IN  IF incremental /\ LastProcessedKeys(relation) # {}
        THEN Filter(df, LAMBDA r : IsNewOrUpdated(r, relation))
        ELSE df

----------------------------------------------------------------------------
(* Enrichment lookups: batch_get_organization_data / batch_get_person_data *)

\* all orders of the elements of a finite set
Perms(S) == {q \in [1..Cardinality(S) -> S] : \A i, j \in 1..Cardinality(S) : i # j => q[i] # q[j]}

\* The dicts a batch fetch of keys can return: a record for every key the
\* service answers, inserted in the order the worker threads complete.
BatchResults(keys, service) ==
    {[i \in 1..Len(q) |-> <<q[i], service[q[i]]>>] :
        q \in Perms({k \in keys : k \in DOMAIN service})}

\* the job_info entries extract_all_data builds from one employment_history
JobInfos(payload) ==
    MapSeq(payload.employment_history, LAMBDA job :
        [organization_name |-> Get(job, "organization_name"),
         title |-> Get(job, "title"),
         start_date |-> Get(job, "start_date"),
         end_date |-> Get(job, "end_date")])

\* job_history: one entry per people record with a non-empty history, in
\* the order of people api_data
JobHistory(people_api_data) ==
    MapSeq(Filter(people_api_data, LAMBDA kv :
                "employment_history" \in DOMAIN kv[2]
                /\ kv[2].employment_history # <<>>),
           LAMBDA kv : <<kv[1], JobInfos(kv[2])>>)

\* extract_jobs: the date columns parsed
ExtractJobs(rows, relation, incremental) ==
    MapSeq(ExtractCsvData(rows, relation, incremental), LAMBDA r :
        [r EXCEPT !.started_on = ToDatetime(@), !.ended_on = ToDatetime(@)])

----------------------------------------------------------------------------
(* Persistence layer: _prepare_row_for_insert, _bulk_upsert *)

\* the columns of the relations (PRAGMA table_info)
OrganizationColumns ==
    {"uuid", "name", "domain", "region", "industry", "status", "total_funding",
     "total_funding_usd", "updated_at", "source", "last_processed_at"}
PeopleColumns ==
    {"uuid", "name", "linkedin_url", "headline", "featured_job_organization_uuid",
     "updated_at", "source", "last_processed_at"}
JobColumns ==
    {"uuid", "person_uuid", "org_uuid", "person_name", "org_name", "title",
     "job_type", "started_on", "ended_on", "updated_at", "source",
     "last_processed_at"}

\* the columns that hold a Timestamp, which is stored as str(value)
TimeColumns == {"updated_at", "last_processed_at"}

\* every column of the table: the row's value, NULL when the row lacks the
\* column or holds NaN, the text of a Timestamp
PrepareRowForInsert(row, columns) ==
    [c \in columns |->
        IF c \notin DOMAIN row \/ IsNa(row[c]) THEN Null
        ELSE IF c \in TimeColumns THEN Some(StrTime(Val(row[c])))
        ELSE row[c]]

Put(relation, key, row) ==
    [k \in DOMAIN relation \cup {key} |-> IF k = key THEN row ELSE relation[k]]

\* The loop of _bulk_upsert over the rows of a batch from row i on, inside
\* the batch's transaction.  outcome[i] is the database's answer to the write
\* of row i: a failed INSERT is counted and skipped, a failed UPDATE raises.
RECURSIVE UpsertRows(_, _, _, _, _, _)
UpsertRows(relation, batch, columns, outcome, i, failed) ==
    IF i > Len(batch)
    THEN [relation |-> relation, failed |-> failed, raised |-> FALSE]
    ELSE LET prepared == PrepareRowForInsert(batch[i], columns)
             key == Val(prepared.uuid)
         IN  IF key \in DOMAIN relation
             THEN IF outcome[i] = "fail"
                  THEN [relation |-> relation, failed |-> failed, raised |-> TRUE]
                  ELSE UpsertRows(Put(relation, key, prepared), batch, columns,
                                  outcome, i + 1, failed)
             ELSE IF outcome[i] = "fail"
                  THEN UpsertRows(relation, batch, columns, outcome, i + 1,
                                  failed + 1)
                  ELSE UpsertRows(Put(relation, key, prepared), batch, columns,
                                  outcome, i + 1, failed)

\* _bulk_upsert: BEGIN, the loop, COMMIT; ROLLBACK of the batch and re-raise
\* when a statement raised
BulkUpsertInsertOnly(relation, batch, columns, outcome) ==
    LET fresh == Filter(batch, LAMBDA r : Val(r.uuid) \notin DOMAIN relation)
    IN  UpsertRows(relation, fresh, columns, [i \in 1..Len(fresh) |-> "ok"], 1, 0)
BulkUpsertSkipsBatch(relation, batch, columns, outcome) ==
    LET done == UpsertRows(relation, batch, columns, outcome, 1, 0)
    IN  IF done.raised \/ done.failed > 0
        THEN [relation |-> relation, failed |-> done.failed, raised |-> done.raised]
        ELSE done
BulkUpsert(relation, batch, columns, outcome) ==
    LET done == UpsertRows(relation, batch, columns, outcome, 1, 0)
    IN  IF done.raised
        THEN [relation |-> relation, failed |-> done.failed, raised |-> TRUE]
        ELSE done

----------------------------------------------------------------------------
(* Founder features: process_founder_features *)

\* title.str.lower().str.contains('founder') on the titles of the model
ContainsFounder(title) == title \in {"Founder", "Co-founder & CEO"}

IsFounderJob(r) ==
    \/ Get(r, "job_type") = Some("founder")
    \/ (~IsNa(r.title) /\ ContainsFounder(Val(r.title)))

RECURSIVE SumCells(_)
SumHead(cells) ==
    IF cells = <<>> \/ IsNa(Head(cells)) THEN 0 ELSE Val(Head(cells))
SumCells(cells) ==
    IF cells = <<>> THEN 0
    ELSE (IF IsNa(Head(cells)) THEN 0 ELSE Val(Head(cells))) + SumCells(Tail(cells))

\* the categories of one category_list text: a JSON list, else the text
\* split at commas with the parts stripped
CategoriesOf(cell) ==
    IF IsNa(cell) THEN {}
    ELSE CASE Val(cell) = "[\"AI\", \"SaaS\"]" -> {"AI", "SaaS"}
           [] Val(cell) = "AI, SaaS" -> {"AI", "SaaS"}
           [] Val(cell) = "[]" -> {}
           [] OTHER -> {Val(cell)}

\* the feature record of one founder, or none when none of the founder's
\* organizations is in the organizations frame
FounderFeature(person_uuid, founder_jobs, orgs) ==
    LET rows == Filter(founder_jobs, LAMBDA r : r.person_uuid = person_uuid)
        founded_org_uuids == {Get(rows[i], "org_uuid") : i \in 1..Len(rows)} \ {Null}
        founded_orgs == Filter(orgs, LAMBDA o : o.uuid \in founded_org_uuids)
    IN  IF founded_orgs = <<>> THEN <<>>
        ELSE <<[person_uuid |-> person_uuid,
                total_companies_founded |-> Cardinality(founded_org_uuids),
                company_categories |->
                    UNION {CategoriesOf(Get(o, "category_list")) : o \in Range(founded_orgs)},
                total_funding_raised |->
                    SumCells(MapSeq(founded_orgs, LAMBDA o : Get(o, "total_funding_usd"))),
                num_aquisitions |->
                    Len(Filter(founded_orgs, LAMBDA o : Get(o, "status") = Some("acquired"))),
                leadership_roles_count |->
                    Len(Filter(rows, LAMBDA r : Get(r, "job_type") = Some("executive")))]>>

\* transform_founder_data: one pass per distinct (person_uuid, person_name)
TransformFounderData(founder_jobs, orgs) ==
    LET founders == DropDuplicates(
            MapSeq(founder_jobs, LAMBDA r :
                [person_uuid |-> r.person_uuid, person_name |-> Get(r, "person_name")]),
            {"person_uuid", "person_name"})
    IN  Flatten(MapSeq(founders, LAMBDA f :
            FounderFeature(f.person_uuid, founder_jobs, orgs)))

\* load_founder_features: INSERT OR REPLACE of every feature row
RECURSIVE LoadFounderFeatures(_, _)
LoadFounderFeatures(relation, features) ==
    IF features = <<>> THEN relation
    ELSE LoadFounderFeatures(
             Put(relation, Val(Head(features).person_uuid), Head(features)),
             Tail(features))

ProcessFounderFeatures(relation, t) ==
    LoadFounderFeatures(relation,
        TransformFounderData(Filter(t.jobs, IsFounderJob), t.organizations))

----------------------------------------------------------------------------
(* Values of the variables while a stage is not in use *)

\* defect: "file_not_found" when a file is not on disk, "column_missing" when
\* a file lacks a column the transform reads without a guard (legal_name,
\* first_name, ...; the rows of the model do not carry these columns)
NoFiles == [organizations |-> <<>>, people |-> <<>>, jobs |-> <<>>, defect |-> "none"]
NoApi == [org |-> <<>>, person |-> <<>>]
EmptyDb == [organizations |-> <<>>, people |-> <<>>, jobs |-> <<>>,
            founder_features |-> <<>>]
NoData == [organizations |-> [csv_data |-> <<>>, api_data |-> <<>>],
           people |-> [csv_data |-> <<>>, api_data |-> <<>>],
           jobs |-> [csv_data |-> <<>>],
           api_job_history |-> <<>>]
NoTables == [organizations |-> <<>>, people |-> <<>>, jobs |-> <<>>]
IdleLoader == [status |-> "idle"]
NoFetch == [status |-> "idle"]
StateFiles == {"logs/pipeline_state.json", "pipeline_state.json"}
NoRunState == [memory |-> <<>>, disk |-> [f \in StateFiles |-> Null]]
NoHist == [run |-> 0, kind |-> "merge"]
FullMode == [incremental |-> FALSE, client |-> TRUE, probe |-> "authenticated"]

\* all sequences over S of length lo..hi
SeqsOf(S, lo, hi) == UNION {[1..n -> S] : n \in lo..hi}

\* the rows of a table get their uuid from their position
Uuids(prefix) ==
    CASE prefix = "o" -> <<"o1", "o2", "o3", "o4">>
      [] prefix = "p" -> <<"p1", "p2", "p3", "p4">>
      [] OTHER -> <<"j1", "j2", "j3", "j4">>
WithUuids(rows, prefix) ==
    [i \in 1..Len(rows) |-> SetCol(rows[i], "uuid", Some(Uuids(prefix)[i]))]

\* a dict over the keys ks (in the order of the sequence order) of chosen values
DictsOver(order, ks, Values) ==
    LET keyseq == Filter(order, LAMBDA k : k \in ks)
    IN  {[i \in 1..Len(keyseq) |-> <<keyseq[i], f[i]>>] : f \in [1..Len(keyseq) -> Values]}

----------------------------------------------------------------------------
(* Run-state record: save_pipeline_state / load_pipeline_state.  A value   *)
(* of the record is a datetime or a text; run_state.memory is the dict     *)
(* pipeline_state of run_pipeline, run_state.disk the files by path        *)

Datetime(t) == [datetime |-> t]
Text(s) == [str |-> s]
IsDatetime(v) == DOMAIN v = {"datetime"}

\* datetime.isoformat / datetime.fromisoformat
IsoFormat(t) == TimeTexts[t]
FromIsoFormat(text) == ParseTime(text)

\* state[key] = value
SetItem(state, key, value) ==
    [k \in DOMAIN state \cup {key} |-> IF k = key THEN value ELSE state[k]]

SavePath == "logs/pipeline_state.json"
LoadPath == "pipeline_state.json"

\* the keys of the record that end in _at, _time or _date
ConvertedKeys ==
    {"last_extract_time", "last_transform_time", "last_load_time", "last_run_time"}

\* save_pipeline_state(state): datetimes written as their ISO text
SavePipelineState(disk, state) ==
    [disk EXCEPT ![SavePath] =
        Some([k \in DOMAIN state |->
                 IF IsDatetime(state[k]) THEN Text(IsoFormat(state[k].datetime))
                 ELSE state[k]])]

\* load_pipeline_state(): {} when there is no file, else the record with
\* the texts of the date-time keys parsed back
LoadPipelineState(disk) ==
    IF disk[LoadPath] = Null THEN <<>>
    ELSE LET state == Val(disk[LoadPath])
         IN  [k \in DOMAIN state |->
                 IF /\ k \in ConvertedKeys
                    /\ ~IsDatetime(state[k])
                    /\ FromIsoFormat(state[k].str) # Null
                 THEN Datetime(Val(FromIsoFormat(state[k].str)))
                 ELSE state[k]]

\* pipeline_state[key] = datetime.now(); save_pipeline_state(pipeline_state)
Checkpoint(rs, key, now) ==
    LET state == SetItem(rs.memory, key, Datetime(now))
    IN  [memory |-> state, disk |-> SavePipelineState(rs.disk, state)]

RunStatusAlwaysSuccess(raised) == "success"

\* 'success' if 'error' not in pipeline_metrics else 'error'
RunStatus(raised) == IF raised THEN "error" ELSE "success"

----------------------------------------------------------------------------
(* The stages of one run: extract_all_data, transform_all_data,             *)
(* load_all_data                                                            *)

BatchSize == 2
MaxFaults == 1

TableOrder == <<"organizations", "people", "jobs">>
ColumnsOf(name) ==
    CASE name = "organizations" -> OrganizationColumns
      [] name = "people" -> PeopleColumns
      [] OTHER -> JobColumns

\* the keys of a frame column sent to the enrichment service:
\* df[col].dropna().unique()
LookupKeys(df, col) == {Val(c) : c \in ColCells(df, col) \ {Null}}

\* extract_all_data: the three files read, the enrichment records fetched
\* when there is a client, in the order the worker threads complete
ExtractAll ==
    /\ pc = "extract"
    /\ files.defect # "file_not_found"
    /\ LET org_df == ExtractCsvData(files.organizations, db.organizations, mode.incremental)
           people_df == ExtractCsvData(files.people, db.people, mode.incremental)
           jobs_df == ExtractJobs(files.jobs, db.jobs, mode.incremental)
       IN  \E org_api \in (IF mode.client
                           THEN BatchResults(LookupKeys(org_df, "domain"), api.org)
                           ELSE {<<>>}) :
           \E people_api \in (IF mode.client
                              THEN BatchResults(LookupKeys(people_df, "linkedin_url"), api.person)
                              ELSE {<<>>}) :
               extracted' = [organizations |-> [csv_data |-> org_df, api_data |-> org_api],
                             people |-> [csv_data |-> people_df, api_data |-> people_api],
                             jobs |-> [csv_data |-> jobs_df],
                             api_job_history |-> JobHistory(people_api)]
    /\ run_state' = Checkpoint(run_state, "last_extract_time", clock)
    /\ pc' = "transform"
    /\ UNCHANGED <<env, clock, db, transformed, loader, hist, fetch>>

TransformAll ==
    /\ pc = "transform"
    /\ files.defect # "column_missing"
    /\ transformed' = TransformAllData(extracted, clock)
    /\ run_state' = Checkpoint(run_state, "last_transform_time", clock)
    /\ pc' = "load"
    /\ UNCHANGED <<env, clock, db, extracted, loader, hist, fetch>>

\* the next batch to write from (table, pos) on: load_data's loop over a
\* table ends when its rows are used up, and the next table follows
RECURSIVE NextBatch(_, _, _)
NextBatch(t, table, pos) ==
    IF table > Len(TableOrder) THEN [table |-> table, pos |-> 1]
    ELSE IF pos <= Len(t[TableOrder[table]]) THEN [table |-> table, pos |-> pos]
    ELSE NextBatch(t, table + 1, 1)

\* load_all_data opens its connection and its transaction
LoadBegin ==
    /\ pc = "load"
    /\ loader' = [status |-> "loading", failed |-> 0,
                  at |-> NextBatch(transformed, 1, 1)]
    /\ hist' = [hist EXCEPT !.pre_load = db, !.skipped = {}]
    /\ pc' = "load_batch"
    /\ UNCHANGED <<env, clock, db, extracted, transformed, fetch, run_state>>

\* the answers of the database to the writes of a batch of n rows
Outcomes(n, faults) ==
    {o \in [1..n -> {"ok", "fail"}] : Cardinality({i \in 1..n : o[i] = "fail"}) <= faults}

\* One batch of load_data, on load_data's own connection: _bulk_upsert and
\* commit.  An exception leaves through load_all_data, whose ROLLBACK acts
\* on the outer connection, where nothing was written.
LoadBatch ==
    /\ pc = "load_batch"
    /\ loader.at.table <= Len(TableOrder)
    /\ LET name == TableOrder[loader.at.table]
           df == transformed[name]
           last == IF loader.at.pos + BatchSize - 1 < Len(df)
                   THEN loader.at.pos + BatchSize - 1 ELSE Len(df)
           batch == SubSeq(df, loader.at.pos, last)
       IN  \E outcome \in Outcomes(Len(batch), MaxFaults - hist.faults) :
           LET done == BulkUpsert(db[name], batch, ColumnsOf(name), outcome)
           IN  /\ db' = [db EXCEPT ![name] = done.relation]
               /\ hist' = [hist EXCEPT
                      !.faults = @ + Cardinality({i \in 1..Len(batch) : outcome[i] = "fail"}),
                      !.skipped = IF done.raised THEN @
                                  ELSE @ \cup {<<name, loader.at.pos + i - 1>> :
                                                  i \in {j \in 1..Len(batch) : outcome[j] = "fail"}}]
               /\ IF done.raised
                  THEN /\ loader' = [loader EXCEPT !.status = "raised"]
                       /\ pc' = "failed"
                  ELSE /\ loader' = [loader EXCEPT
                              !.failed = @ + done.failed,
                              !.at = NextBatch(transformed, loader.at.table, last + 1)]
                       /\ pc' = "load_batch"
    /\ UNCHANGED <<env, clock, extracted, transformed, fetch, run_state>>

\* after the third table: COMMIT of the outer transaction, then
\* process_founder_features on the merged tables
LoadCommitAnytime ==
    /\ pc = "load_batch"
    /\ loader.status = "loading"
    /\ db' = [db EXCEPT !.founder_features = ProcessFounderFeatures(@, transformed)]
    /\ loader' = [loader EXCEPT !.status = "done"]
    /\ pc' = "loaded"
    /\ UNCHANGED <<env, clock, extracted, transformed, hist, fetch, run_state>>
LoadCommit ==
    /\ pc = "load_batch"
    /\ loader.at.table > Len(TableOrder)
    /\ db' = [db EXCEPT !.founder_features = ProcessFounderFeatures(@, transformed)]
    /\ loader' = [loader EXCEPT !.status = "done"]
    /\ pc' = "loaded"
    /\ UNCHANGED <<env, clock, extracted, transformed, hist, fetch, run_state>>

----------------------------------------------------------------------------
(* SpecMerge: the entity merge applied to every small CSV frame and every   *)
(* enrichment mapping fetched for its keys                                  *)

MaxOrgs == 2

MergeOrgRows ==
    [domain : {Some("a.com"), Some("b.com"), Null},
     name : {Null, Some("Acme Inc")},
     region : {Null},
     total_funding : {Null, Some(100), Some(500)},
     source : {Some("csv")}]

OrgPayloads ==
    {[name |-> Some("Acme Corp"), total_funding |-> Some(500), industry |-> Some("tech")],
     [name |-> Some("Acme Corp"), total_funding |-> Some(100), state |-> Some("CA")],
     [name |-> Null, total_funding |-> Null],
     [name |-> Some("Acme Corp"), domain |-> Some("b.com")]}

MergePeopleRows ==
    [linkedin_url : {Some("li/1"), Some("li/2"), Null},
     name : {Null, Some("Ann")},
     featured_job_organization_uuid : {Null},
     source : {Some("csv")}]

PeoplePayloads ==
    {[name |-> Some("Ann B"), headline |-> Some("CEO")],
     [name |-> Null, state |-> Some("CA")],
     [name |-> Some("Ann B"), linkedin_url |-> Some("li/2")]}

\* the keys a frame asks the service for: df[key].dropna().unique()
KeysOf(df, keycol) == {Val(c) : c \in ColCells(df, keycol) \ {Null}}

InitMerge ==
    /\ fetch = NoFetch /\ run_state = NoRunState
    /\ mode = FullMode /\ clock = 1
    /\ files = NoFiles /\ api = NoApi /\ db = EmptyDb
    /\ loader = IdleLoader /\ hist = NoHist
    /\ transformed = NoTables
    /\ \E kind \in {"organizations", "people"} :
        /\ pc = IF kind = "organizations" THEN "merge_org" ELSE "merge_people"
        /\ IF kind = "organizations"
           THEN \E rows \in SeqsOf(MergeOrgRows, 1, MaxOrgs) :
                  LET df == WithUuids(rows, "o") IN
                  \E ks \in SUBSET KeysOf(df, "domain") :
                  \E d \in DictsOver(<<"a.com", "b.com">>, ks, OrgPayloads) :
                    extracted = [NoData EXCEPT !.organizations =
                                    [csv_data |-> df, api_data |-> d]]
           ELSE \E rows \in SeqsOf(MergePeopleRows, 1, MaxOrgs) :
                  LET df == WithUuids(rows, "p") IN
                  \E ks \in SUBSET KeysOf(df, "linkedin_url") :
                  \E d \in DictsOver(<<"li/1", "li/2">>, ks, PeoplePayloads) :
                    extracted = [NoData EXCEPT !.people =
                                    [csv_data |-> df, api_data |-> d]]

MergeOrgStep ==
    /\ pc = "merge_org"
    /\ transformed' = [transformed EXCEPT !.organizations =
           MergeApiOrgData(extracted.organizations.csv_data,
                           extracted.organizations.api_data)]
    /\ pc' = "merged_org"
    /\ UNCHANGED <<env, clock, db, extracted, loader, hist, fetch, run_state>>

MergePeopleStep ==
    /\ pc = "merge_people"
    /\ transformed' = [transformed EXCEPT !.people =
           MergeApiPeopleData(extracted.people.csv_data,
                              extracted.people.api_data)]
    /\ pc' = "merged_people"
    /\ UNCHANGED <<env, clock, db, extracted, loader, hist, fetch, run_state>>

\* the merge applied once more, to its own output and the same mapping
RemergeOrgStep ==
    /\ pc = "merged_org"
    /\ transformed' = [transformed EXCEPT !.organizations =
           MergeApiOrgData(transformed.organizations,
                           extracted.organizations.api_data)]
    /\ hist' = [run |-> hist.run, kind |-> hist.kind, first |-> transformed]
    /\ pc' = "remerged_org"
    /\ UNCHANGED <<env, clock, db, extracted, loader, fetch, run_state>>

RemergePeopleStep ==
    /\ pc = "merged_people"
    /\ transformed' = [transformed EXCEPT !.people =
           MergeApiPeopleData(transformed.people, extracted.people.api_data)]
    /\ hist' = [run |-> hist.run, kind |-> hist.kind, first |-> transformed]
    /\ pc' = "remerged_people"
    /\ UNCHANGED <<env, clock, db, extracted, loader, fetch, run_state>>

NextMerge == MergeOrgStep \/ MergePeopleStep \/ RemergeOrgStep \/ RemergePeopleStep

SpecMerge == InitMerge /\ [][NextMerge]_vars

----------------------------------------------------------------------------
(* Properties of the entity merge (checked under SpecMerge) *)

MergeDone == pc \in {"merged_org", "merged_people"}
MergeKind == IF pc = "merged_org" THEN "organizations" ELSE "people"
MergeKey == IF pc = "merged_org" THEN "domain" ELSE "linkedin_url"
MergeFile == extracted[MergeKind].csv_data
MergeOut == transformed[MergeKind]
\* the enrichment table: one row per enrichment record, fields under their
\* CSV names
EnrichmentTable ==
    IF pc = "merged_org"
    THEN ApiFrame(ApiRows(extracted.organizations.api_data, "domain",
                          OrgApiRowFields, ORGANIZATION_FIELD_MAPPINGS))
    ELSE ApiFrame(ApiRows(extracted.people.api_data, "linkedin_url",
                          PeopleApiRowFields, PEOPLE_FIELD_MAPPINGS))
\* the enrichment rows whose key is the key of CSV row f
MatchesOf(f) == {a \in Range(EnrichmentTable) : a[MergeKey] = f[MergeKey]}
\* the merged rows that come from CSV row f
MergedOf(f) == {m \in Range(MergeOut) : m.uuid = f.uuid}
SharedCols == FrameCols(MergeFile) \cap FrameCols(EnrichmentTable)

\* every merged row of a matched CSV row carries, in each column of cols,
\* the CSV cell when it is not null and the cell of a matching enrichment
\* row otherwise, and every matching enrichment row is merged in this way
FileWinsOn(cols) ==
    \A f \in Range(MergeFile) :
        /\ \A m \in MergedOf(f) :
               MatchesOf(f) # {} =>
                   \E a \in MatchesOf(f) : \A c \in cols :
                       m[c] = IF f[c] # Null THEN f[c] ELSE a[c]
        /\ \A a \in MatchesOf(f) :
               \E m \in MergedOf(f) : \A c \in cols :
                   m[c] = IF f[c] # Null THEN f[c] ELSE a[c]

\* C3 as stated: in the merge of organizations and of people, for every
\* column present in both the CSV frame and the enrichment table (the
\* provenance column source is one of them) and every matched row, the
\* merged cell is the CSV cell when that is non-null and the enrichment
\* cell otherwise.
C3_FileWinsEveryColumn == MergeDone => FileWinsOn(SharedCols)

\* C3 amended: the same for every shared column other than the provenance
\* column source, which the merge overwrites with 'csv+api' afterwards.
C3_FileWinsDataColumns == MergeDone => FileWinsOn(SharedCols \ {"source"})

\* C3 witness: a merge in which one matched row kept its CSV name against
\* a different enrichment name and another, with a null CSV name, took the
\* enrichment name.
C3_Witness ==
    /\ pc = "merged_org"
    /\ \E f, g \in Range(MergeFile) :
        /\ f.name = Some("Acme Inc") /\ g.name = Null
        /\ \E a \in MatchesOf(f) : a.name = Some("Acme Corp")
        /\ \E a \in MatchesOf(g) : a.name = Some("Acme Corp")
        /\ \A m \in MergedOf(f) : m.name = Some("Acme Inc")
        /\ \A m \in MergedOf(g) : m.name = Some("Acme Corp")

Max(x, y) == IF x >= y THEN x ELSE y

\* C4: for an organization for which both the CSV row and the enrichment
\* record carry a total funding amount, the merged total_funding is the
\* maximum of the two.
C4_FundingIsMax ==
    pc = "merged_org" =>
        \A f \in Range(MergeFile) : \A m \in MergedOf(f) :
            (MatchesOf(f) # {} /\ f.total_funding # Null) =>
                \E a \in MatchesOf(f) :
                    a.total_funding # Null =>
                        m.total_funding =
                            Some(Max(Val(f.total_funding), Val(a.total_funding)))

\* C5: after the merge a row is tagged 'csv+api' if and only if an
\* enrichment record matched its key and was merged into it; every other
\* row keeps the tag 'csv'.
C5_TagIffMerged ==
    MergeDone =>
        \A f \in Range(MergeFile) : \A m \in MergedOf(f) :
            m.source = IF MatchesOf(f) # {} THEN Some("csv+api") ELSE Some("csv")

\* C28: the entity merge yields exactly one output row per file row, none
\* dropped and none duplicated, so uuids unique in the file table are
\* unique in the merged table, for every enrichment mapping, payloads that
\* carry a 'domain' or 'linkedin_url' field of their own included.
C28_OneRowPerFileRow ==
    MergeDone =>
        /\ Len(MergeOut) = Len(MergeFile)
        /\ \A i \in 1..Len(MergeFile) : MergeOut[i].uuid = MergeFile[i].uuid

RemergeDone == pc \in {"remerged_org", "remerged_people"}

\* C25: the entity merge is idempotent: merging the same file table against
\* the same enrichment mapping (the empty one included) again gives the same
\* table, and merging the output of a merge again with the same mapping
\* changes no value.
C25_MergeIdempotent ==
    RemergeDone =>
        /\ transformed = hist.first
        /\ pc = "remerged_org" =>
               MergeApiOrgData(extracted.organizations.csv_data,
                               extracted.organizations.api_data)
                   = hist.first.organizations
        /\ pc = "remerged_people" =>
               MergeApiPeopleData(extracted.people.csv_data,
                                  extracted.people.api_data)
                   = hist.first.people

----------------------------------------------------------------------------
(* SpecJobs: the job history derivation and the cross-entity repair, each   *)
(* applied to every small input                                             *)

MaxJobs == 2

\* inputs of validate_foreign_keys
RepairOrgs == {<<>>, <<[uuid |-> Some("o1")]>>,
               <<[uuid |-> Some("o1")], [uuid |-> Some("o2")]>>}
RepairPeopleRows == [featured_job_organization_uuid : {Null, Some("o1")}]
RepairJobRows ==
    [person_uuid : {Null, Some("p1"), Some("p2"), Some("p9")},
     org_uuid : {Null, Some("o1"), Some("o2"), Some("o9")},
     title : {Some("CEO")},
     source : {Some("csv")}]

\* inputs of _enrich_jobs_with_api_data
EnrichPeople ==
    {<<[uuid |-> Some("p1"), linkedin_url |-> Some("li/1"), name |-> Some("Ann"),
        featured_job_organization_uuid |-> Null, source |-> Some("csv")],
       [uuid |-> Some("p2"), linkedin_url |-> u, name |-> Some("Bob"),
        featured_job_organization_uuid |-> Null, source |-> Some("csv")]>> :
     u \in {Null, Some("li/2")}}
EnrichJobRows ==
    [person_uuid : {Some("p1"), Some("p2"), Some("p9")},
     org_uuid : {Some("o1")},
     org_name : {Some("Acme")},
     title : {Some("CEO"), Some("CTO")},
     started_on : {Null, Some("2020-01-01")},
     ended_on : {Null},
     job_type : {Null},
     source : {Some("csv")}]
HistoryEntry(title, start) ==
    [organization_name |-> Some("Acme"), title |-> Some(title),
     start_date |-> start, end_date |-> Null]
HistoryLists ==
    {<<HistoryEntry("CEO", Some("01/01/2020")), HistoryEntry("CTO", Some("not a date"))>>,
     <<HistoryEntry("CTO", Null), HistoryEntry("CTO", Null)>>}
HistoryOrders == {<<"li/1", "li/2", "li/9">>, <<"li/9", "li/2", "li/1">>}

InitJobs ==
    /\ fetch = NoFetch /\ run_state = NoRunState
    /\ mode = FullMode /\ clock = 1
    /\ files = NoFiles /\ api = NoApi /\ db = EmptyDb /\ loader = IdleLoader
    /\ \/ /\ pc = "validate"
          /\ extracted = NoData
          /\ hist = [run |-> 0, kind |-> "repair"]
          /\ \E o \in RepairOrgs :
             \E prows \in SeqsOf(RepairPeopleRows, 0, 2) :
             \E jrows \in SeqsOf(RepairJobRows, 0, MaxJobs) :
                transformed = [organizations |-> o,
                               people |-> WithUuids(prows, "p"),
                               jobs |-> WithUuids(jrows, "j")]
       \/ /\ pc = "enrich"
          /\ hist = [run |-> 0, kind |-> "jobs"]
          /\ \E people \in EnrichPeople :
             \E jrows \in SeqsOf(EnrichJobRows, 0, MaxJobs) :
             \E order \in HistoryOrders :
             \E ks \in SUBSET {"li/1", "li/2", "li/9"} :
             \E h \in DictsOver(order, ks, HistoryLists) :
                /\ Cardinality(ks) <= 2
                /\ extracted = [NoData EXCEPT
                                   !.jobs = [csv_data |-> WithUuids(jrows, "j")],
                                   !.api_job_history = h]
                /\ transformed = [organizations |-> <<[uuid |-> Some("o1")]>>,
                                  people |-> people,
                                  jobs |-> <<>>]

EnrichStep ==
    /\ pc = "enrich"
    /\ transformed' = [transformed EXCEPT !.jobs =
           EnrichJobsWithApiData(extracted.jobs.csv_data, transformed.people,
                                 extracted.api_job_history, 1)]
    /\ pc' = "enriched"
    /\ UNCHANGED <<env, clock, db, extracted, loader, hist, fetch, run_state>>

ValidateStep ==
    /\ pc \in {"validate", "enriched"}
    /\ transformed' = ValidateForeignKeys(transformed)
    /\ hist' = [run |-> hist.run, kind |-> hist.kind, input |-> transformed]
    /\ pc' = "validated"
    /\ UNCHANGED <<env, clock, db, extracted, loader, fetch, run_state>>

NextJobs == EnrichStep \/ ValidateStep

SpecJobs == InitJobs /\ [][NextJobs]_vars

----------------------------------------------------------------------------
(* Properties of the repair and of the job deduplication (under SpecJobs) *)

PersonKeySet == ColCells(transformed.people, "uuid") \ {Null}
OrgKeySet == ColCells(transformed.organizations, "uuid") \ {Null}

\* C1: after validate_foreign_keys every remaining job row has a person_uuid
\* that is non-null and in the person key set, and an org_uuid that is null
\* or in the organization key set.
C1_RepairedReferences ==
    pc = "validated" =>
        \A j \in Range(transformed.jobs) :
            /\ j.person_uuid # Null
            /\ j.person_uuid \in PersonKeySet
            /\ (Get(j, "org_uuid") = Null \/ j.org_uuid \in OrgKeySet)

\* C1 witness: a repair whose input held a job with a dangling person, a job
\* with a null person and a job with a dangling organization, and whose
\* output still holds a job.
C1_Witness ==
    /\ pc = "validated"
    /\ \E j \in Range(hist.input.jobs) : j.person_uuid = Some("p9")
    /\ \E j \in Range(hist.input.jobs) :
           j.person_uuid \in PersonKeySet /\ j.org_uuid = Some("o9")
    /\ transformed.jobs # <<>>

\* C2: the repair drops exactly the job rows whose person reference is not a
\* valid person key; every other row is kept once, in order and unchanged
\* except that an organization reference that is non-null and not a valid
\* organization key is set to null.
C2_DropsExactlyPersonless ==
    pc = "validated" =>
        LET in == hist.input.jobs
            out == transformed.jobs
            kept == {i \in 1..Len(in) : in[i].person_uuid \in PersonKeySet}
        IN  /\ Len(out) = Cardinality(kept)
            /\ {r.uuid : r \in Range(out)} = {in[i].uuid : i \in kept}
            /\ \A a, b \in 1..Len(out) : a < b =>
                   \E i, k \in kept : i < k /\ in[i].uuid = out[a].uuid
                                            /\ in[k].uuid = out[b].uuid
            /\ \A m \in Range(out) : \E i \in kept :
                   /\ in[i].uuid = m.uuid
                   /\ DOMAIN m = DOMAIN in[i]
                   /\ \A c \in DOMAIN m \ {"org_uuid"} : m[c] = in[i][c]
                   /\ Get(m, "org_uuid") = IF Get(in[i], "org_uuid") \in OrgKeySet
                                           THEN in[i].org_uuid ELSE Null

\* C2 witness: a repair that dropped a job with a dangling person and kept a
\* job with a dangling organization, its org_uuid nulled.
C2_Witness ==
    /\ pc = "validated"
    /\ \E j \in Range(hist.input.jobs) :
           /\ j.person_uuid = Some("p9")
           /\ \A m \in Range(transformed.jobs) : m.uuid # j.uuid
    /\ \E j \in Range(hist.input.jobs) :
           /\ j.org_uuid = Some("o9")
           /\ \E m \in Range(transformed.jobs) : m.uuid = j.uuid /\ m.org_uuid = Null

\* the composite key of job deduplication
JobKey(r) == <<r.person_uuid, r.org_name, r.title, r.started_on, r.ended_on>>

\* the composite keys of the synthetic rows derived from the job history:
\* one per entry under a profile URL that resolves to a person
SyntheticKeys ==
    UNION {{<<LinkedinToUuid(transformed.people, h[1]), h[2][k].organization_name,
              h[2][k].title, ToDatetime(h[2][k].start_date),
              ToDatetime(h[2][k].end_date)>> : k \in 1..Len(h[2])} :
           h \in {x \in Range(extracted.api_job_history) :
                     x[1] \in LinkedinKeys(transformed.people)}}

RowsWithKey(df, key) == {i \in 1..Len(df) : JobKey(df[i]) = key}

JobsDerived == hist.kind = "jobs" /\ pc \in {"enriched", "validated"}

\* C6: when a file-sourced job row and a synthetic row derived from the
\* enrichment history share (person_uuid, org_name, title, started_on,
\* ended_on), exactly one row with that composite key survives the
\* deduplication and it is the file-sourced one.
C6_FileRowWinsDedup ==
    JobsDerived =>
        \A r \in Range(extracted.jobs.csv_data) :
            JobKey(r) \in SyntheticKeys =>
                /\ Cardinality(RowsWithKey(transformed.jobs, JobKey(r))) = 1
                /\ \A i \in RowsWithKey(transformed.jobs, JobKey(r)) :
                       transformed.jobs[i].source = Some("csv")

\* C6 witness: a file row collided with a synthetic row whose start date was
\* spelled differently, and another synthetic row survived beside it.
C6_Witness ==
    /\ hist.kind = "jobs" /\ pc = "enriched"
    /\ \E r \in Range(extracted.jobs.csv_data) :
           /\ JobKey(r) \in SyntheticKeys
           /\ r.started_on # Null
           /\ \E h \in Range(extracted.api_job_history) : \E k \in 1..Len(h[2]) :
                  h[2][k].start_date = Some("01/01/2020")
           /\ \E m \in Range(transformed.jobs) : m.uuid = r.uuid
    /\ \E m \in Range(transformed.jobs) : m.source = Some("api")

\* a Person row of the merged people table has this profile URL
Resolves(people_df, url) ==
    \E i \in DOMAIN people_df : people_df[i].linkedin_url = Some(url)

\* the employment-history entries, each with the URL of its record, whose
\* URL resolves to a Person, in the order of the history
RECURSIVE ResolvedEntries(_, _)
ResolvedEntries(history, people_df) ==
    IF history = <<>> THEN <<>>
    ELSE LET url == Head(history)[1]
             jobs == Head(history)[2]
         IN  (IF Resolves(people_df, url)
              THEN [k \in 1..Len(jobs) |-> <<url, jobs[k]>>] ELSE <<>>)
             \o ResolvedEntries(Tail(history), people_df)

\* new_job_rows of the derivation that produced transformed.jobs
CreatedRows ==
    NewJobRows(extracted.api_job_history, transformed.people, 1, <<>>)

\* C23: a synthetic job row (source 'api') is created for an employment
\* history entry if and only if the profile URL of the owning record is the
\* linkedin_url of a Person row of the merged people table, and its
\* person_uuid is that Person's uuid; entries under a URL that resolves to no
\* Person give no row.  Every 'api' row of the output is one of the created
\* rows, and the composite key of every created row is in the output.
C23_SyntheticRowIffResolved ==
    (hist.kind = "jobs" /\ pc = "enriched") =>
        LET entries == ResolvedEntries(extracted.api_job_history, transformed.people)
            created == CreatedRows
        IN  /\ Len(created) = Len(entries)
            /\ \A n \in 1..Len(created) :
                   /\ created[n].source = Some("api")
                   /\ created[n].title = entries[n][2].title
                   /\ created[n].org_name = entries[n][2].organization_name
                   /\ created[n].started_on = entries[n][2].start_date
                   /\ \E i \in DOMAIN transformed.people :
                          /\ transformed.people[i].linkedin_url = Some(entries[n][1])
                          /\ transformed.people[i].uuid = created[n].person_uuid
                   /\ \E m \in Range(transformed.jobs) :
                          /\ m.person_uuid = created[n].person_uuid
                          /\ m.org_name = created[n].org_name
                          /\ m.title = created[n].title
                          /\ m.started_on = ToDatetime(created[n].started_on)
            /\ \A m \in Range(transformed.jobs) :
                   m.source = Some("api") =>
                       \E n \in 1..Len(created) :
                           /\ created[n].uuid = m.uuid
                           /\ created[n].person_uuid = m.person_uuid

\* the file-sourced rows of a jobs table, named by their uuid (the file rows
\* of one input have distinct uuids; pd.concat adds NaN columns to them)
FileSourced(df) == {r.uuid : r \in {x \in Range(df) : x.source = Some("csv")}}

\* C29: the file-sourced Job rows of the output do not depend on the
\* enrichment job history: for the same file jobs and people, the set of
\* surviving file-sourced rows is the set obtained with an empty history.
C29_FileRowsIgnoreHistory ==
    (hist.kind = "jobs" /\ pc = "enriched") =>
        FileSourced(transformed.jobs) =
            FileSourced(EnrichJobsWithApiData(extracted.jobs.csv_data,
                                              transformed.people, <<>>, 1))

\* C23 witness: a history with a record under a URL of no Person and a
\* record under the URL of a Person, whose entries became 'api' rows
C23_Witness ==
    /\ hist.kind = "jobs" /\ pc = "enriched"
    /\ \E h \in Range(extracted.api_job_history) :
           ~Resolves(transformed.people, h[1])
    /\ \E h \in Range(extracted.api_job_history) :
           Resolves(transformed.people, h[1])
    /\ \E m \in Range(transformed.jobs) : m.source = Some("api")
    /\ \E m \in Range(transformed.jobs) : m.source = Some("csv")

----------------------------------------------------------------------------
(* SpecExtract: the reader applied to every small organizations file and    *)
(* every small stored organizations relation, in both modes                 *)

MaxRows == 3

\* the rows of organizations.csv; updated_at as written in the file
ReadRows ==
    [name : {Some("Acme")},
     updated_at : {Some("2024-01-01"), Some("2024-01-02"), Some("2024-01-03"),
                   Some("n/a")}]

\* a row of the organizations relation as an earlier load left it
StoredOrg(key, source, last_processed_at) ==
    [c \in OrganizationColumns |->
        CASE c = "uuid" -> Some(key)
          [] c = "source" -> Some(source)
          [] c = "last_processed_at" -> last_processed_at
          [] OTHER -> Null]
StoredOrgs ==
    UNION {[ks -> {"csv", "csv+api"} \X {Null, Some("2024-01-02")}] :
           ks \in SUBSET {"o1", "o2", "o3"}}

InitExtract ==
    /\ fetch = NoFetch /\ run_state = NoRunState
    /\ clock = 1
    /\ mode \in [incremental : BOOLEAN, client : {FALSE}, probe : {"error"}]
    /\ \E rows \in SeqsOf(ReadRows, 1, MaxRows) :
           files = [NoFiles EXCEPT !.organizations = WithUuids(rows, "o")]
    /\ \E st \in StoredOrgs :
           db = [EmptyDb EXCEPT !.organizations =
                    [k \in DOMAIN st |-> StoredOrg(k, st[k][1], st[k][2])]]
    /\ api = NoApi
    /\ extracted = NoData /\ transformed = NoTables
    /\ loader = IdleLoader /\ hist = [run |-> 0, kind |-> "extract"]
    /\ pc = "extract_org"

ExtractStep ==
    /\ pc = "extract_org"
    /\ extracted' = [extracted EXCEPT !.organizations.csv_data =
           ExtractCsvData(files.organizations, db.organizations, mode.incremental)]
    /\ pc' = "extracted_org"
    /\ UNCHANGED <<env, clock, db, transformed, loader, hist, fetch, run_state>>

NextExtract == ExtractStep

SpecExtract == InitExtract /\ [][NextExtract]_vars

----------------------------------------------------------------------------
(* Properties of the reader *)

ExtractDone == hist.kind = "extract" /\ pc = "extracted_org"

\* the (uuid, last_processed_at) pairs recorded for file-sourced rows
StoredSet ==
    {<<k, db.organizations[k].last_processed_at>> :
        k \in {u \in DOMAIN db.organizations : db.organizations[u].source = Some("csv")}}

\* position of a date-time text on the time line, 0 when it is no date-time
TimeOf(cell) ==
    IF \E t \in 1..Len(TimeTexts) : cell = Some(TimeTexts[t])
    THEN CHOOSE t \in 1..Len(TimeTexts) : cell = Some(TimeTexts[t])
    ELSE 0

KeptUuids == {r.uuid : r \in Range(extracted.organizations.csv_data)}

ShouldKeep(f) ==
    \/ \A p \in StoredSet : p[1] # Val(f.uuid)
    \/ \E p \in StoredSet :
           /\ p[1] = Val(f.uuid)
           /\ \/ p[2] = Null
              \/ TimeOf(f.updated_at) > 0 /\ TimeOf(f.updated_at) > TimeOf(p[2])

----------------------------------------------------------------------------
(* SpecLoad: load_all_data applied to every small set of merged tables and  *)
(* every small stored state, under every answer of the database             *)

MaxLoadRows == 2

LoadOrgRows ==
    [uuid : {Some("o1"), Some("o2")},
     name : {Some("Acme"), Some("Beta")},
     status : {Some("acquired")},
     total_funding_usd : {Some(100)},
     source : {Some("csv")},
     updated_at : {Null},
     last_processed_at : {Some(2)}]
LoadPeopleRow(name) ==
    [uuid |-> Some("p1"), name |-> Some(name), linkedin_url |-> Some("li/1"),
     source |-> Some("csv"), updated_at |-> Some(1), last_processed_at |-> Some(2)]
LoadJobRow(uuid, title) ==
    [uuid |-> Some(uuid), person_uuid |-> Some("p1"), org_uuid |-> Some("o1"),
     person_name |-> Some("Ann"), title |-> Some(title), job_type |-> Null,
     source |-> Some("csv"), last_processed_at |-> Some(2)]

\* rows an earlier load left
OldOrg(key) ==
    [StoredOrg(key, "csv+api", Some("2024-01-01")) EXCEPT
        !.name = Some("Old"), !.industry = Some("Tech")]
OldPerson ==
    PrepareRowForInsert([LoadPeopleRow("Old") EXCEPT !.last_processed_at = Some(1)],
                        PeopleColumns)

InitLoad ==
    /\ fetch = NoFetch /\ run_state = NoRunState
    /\ mode = FullMode /\ clock = 2
    /\ files = NoFiles /\ api = NoApi /\ extracted = NoData
    /\ \E orgs \in SeqsOf(LoadOrgRows, 0, MaxLoadRows) :
       \E people \in {<<>>, <<LoadPeopleRow("Ann")>>} :
       \E jobs \in {<<>>, <<LoadJobRow("j1", "Founder")>>,
                    <<LoadJobRow("j1", "CEO"), LoadJobRow("j1", "Founder")>>} :
           transformed = [organizations |-> orgs, people |-> people, jobs |-> jobs]
    /\ \E ks \in SUBSET {"o1", "o3"} : \E ps \in SUBSET {"p1"} :
           db = [EmptyDb EXCEPT !.organizations = [k \in ks |-> OldOrg(k)],
                                !.people = [k \in ps |-> OldPerson]]
    /\ loader = IdleLoader
    /\ hist = [run |-> 0, kind |-> "load", pre_load |-> db, faults |-> 0, skipped |-> {}]
    /\ pc = "load"

NextLoad == LoadBegin \/ LoadBatch \/ LoadCommit

SpecLoad == InitLoad /\ [][NextLoad]_vars

----------------------------------------------------------------------------
(* Properties of the load *)

Loading == hist.kind = "load"
Relations == {"organizations", "people", "jobs"}

\* C8: if the three-entity load fails partway, none of the rows written by
\* this load remain: organizations, people and jobs all hold their pre-load
\* contents.
C8_FailedLoadLeavesNothing ==
    (Loading /\ loader.status = "raised") =>
        \A name \in Relations : db[name] = hist.pre_load[name]

TableKeys(df) == {Val(df[i].uuid) : i \in 1..Len(df)}

\* the row of the table that is written last for a key
LastRowOf(df, key) ==
    df[CHOOSE i \in 1..Len(df) :
           /\ df[i].uuid = Some(key)
           /\ \A j \in (i + 1)..Len(df) : df[j].uuid # Some(key)]

\* the stored form of an incoming value: NULL for a missing one, the text of
\* a Timestamp
StoredValue(row, c) ==
    IF c \notin DOMAIN row \/ row[c] = Null THEN Null
    ELSE IF c \in {"updated_at", "last_processed_at"}
         THEN Some(TimeTexts[Val(row[c])])
         ELSE row[c]

UpsertedCleanly == Loading /\ loader.status = "done" /\ loader.failed = 0

\* C9: after the upsert of a table into a relation completed without error
\* (no exception and no row counted as failed), the relation holds, for
\* every primary-key value of the table, one row with that key whose
\* non-key columns carry the incoming values, and every relation row whose
\* key does not occur in the table is unchanged.
C9_UpsertPostcondition ==
    UpsertedCleanly =>
        \A name \in Relations :
            LET df == transformed[name]
                pre == hist.pre_load[name]
                now == db[name]
            IN  /\ DOMAIN now = DOMAIN pre \cup TableKeys(df)
                /\ \A key \in TableKeys(df) :
                       /\ now[key].uuid = Some(key)
                       /\ \A c \in DOMAIN now[key] :
                              now[key][c] = StoredValue(LastRowOf(df, key), c)
                /\ \A key \in DOMAIN pre \ TableKeys(df) : now[key] = pre[key]

\* C9 witness: a clean load updated a stored organization, inserted another
\* and left a third stored organization alone.
C9_Witness ==
    /\ UpsertedCleanly
    /\ TableKeys(transformed.organizations) = {"o1", "o2"}
    /\ DOMAIN hist.pre_load.organizations = {"o1", "o3"}
    /\ db.organizations["o1"].name # Some("Old")
    /\ db.organizations["o3"].name = Some("Old")
    /\ "p1" \in DOMAIN hist.pre_load.people /\ db.people["p1"].name = Some("Ann")

----------------------------------------------------------------------------
(* Spec: runs of the whole pipeline (run_pipeline) over unchanged files and *)
(* an unchanged enrichment service                                          *)

MaxRuns == 2

PipeOrg(domain) ==
    [uuid |-> Some("o1"), name |-> Some(" Acme  Inc "), domain |-> domain,
     region |-> Null, total_funding |-> Some(100), total_funding_usd |-> Some(100),
     status |-> Some("acquired"), updated_at |-> Some("2024-01-01")]
PipePerson(uuid, name, url, org) ==
    [uuid |-> Some(uuid), name |-> Some(name), linkedin_url |-> Some(url),
     featured_job_organization_uuid |-> Some(org), updated_at |-> Some("2024-01-01")]
PipeJob(uuid, person, name, org, title, job_type) ==
    [uuid |-> Some(uuid), person_uuid |-> Some(person), org_uuid |-> Some(org),
     person_name |-> Some(name), org_name |-> Some("Acme"), title |-> Some(title),
     job_type |-> job_type, started_on |-> Some("2020-01-01"), ended_on |-> Null,
     updated_at |-> Some("2024-01-01")]
PipeFiles ==
    {[organizations |-> <<PipeOrg(d)>>,
      people |-> <<PipePerson("p1", "Ann", "li/1", "o1"),
                   PipePerson("p2", "Bob", "li/2", "o9")>>,
      jobs |-> <<PipeJob("j1", "p1", "Ann", "o1", "Founder", Null),
                 PipeJob("j2", "p2", "Bob", "o9", "CEO", Some("executive")),
                 PipeJob("j3", "p9", "Cy", "o1", "CTO", Null)>>,
      defect |-> defect] :
     d \in {Some("a.com"), Some("A.com ")},
     defect \in {"none", "file_not_found", "column_missing"}}

\* what the enrichment service answers, by lookup key
OrgService ==
    [k \in {"a.com"} |->
        [name |-> Some("Acme Corp"), industry |-> Some("Tech"),
         total_funding |-> Some(500)]]
PersonService ==
    [k \in {"li/1", "li/2"} |->
        IF k = "li/1"
        THEN [name |-> Some("Ann B"), headline |-> Some("Builder"),
              employment_history |-> <<HistoryEntry("CEO", Some("01/01/2020"))>>]
        ELSE [name |-> Some("Bob"),
              employment_history |-> <<HistoryEntry("CTO", Null)>>]]
NoService == [k \in {} |-> Null]

Init ==
    /\ fetch = NoFetch /\ run_state = NoRunState
    /\ files \in PipeFiles
    /\ api \in [org : {NoService, OrgService}, person : {NoService, PersonService}]
    /\ mode = FullMode /\ clock = 1
    /\ db = EmptyDb
    /\ extracted = NoData /\ transformed = NoTables /\ loader = IdleLoader
    /\ hist = [run |-> 0, kind |-> "pipeline", pre_load |-> EmptyDb, faults |-> 0, skipped |-> {},
               prev |-> EmptyDb, prev_mode |-> FullMode, prev_ok |-> FALSE,
               raised_in |-> "none", saved |-> <<>>]
    /\ pc = "idle"

\* what the request of _verify_auth can come to: a response whose
\* Authenticated field is true, a response without it, a failed request
Probes == {"authenticated", "not_authenticated", "error"}

VerifyAuthLenient(probe) == probe # "error"

\* _verify_auth returns only on an explicit acknowledgment: whatever else
\* happens inside its try block ends in the ValueError of its handler
VerifyAuth(probe) == probe = "authenticated"

\* ApiClient() inside the try of run_pipeline: the client, or None
\* when the construction raised
MakeClient(probe) == VerifyAuth(probe)

\* run_pipeline starts: the mode of the run, the client when the
\* authentication probe succeeds, the transformation timestamp
StartRun ==
    /\ pc = "idle"
    /\ hist.run < MaxRuns
    /\ clock < Len(TimeTexts)
    /\ \E inc \in BOOLEAN : \E probe \in Probes :
           mode' = [incremental |-> inc, client |-> MakeClient(probe), probe |-> probe]
    /\ clock' = clock + 1
    /\ hist' = [hist EXCEPT !.run = @ + 1, !.raised_in = "none"]
    /\ run_state' = [run_state EXCEPT !.memory = LoadPipelineState(run_state.disk)]
    /\ extracted' = NoData /\ transformed' = NoTables /\ loader' = IdleLoader
    /\ pc' = "extract"
    /\ UNCHANGED <<files, api, db, fetch>>

\* run_pipeline starts and init_database raises: no component is built
InitFail ==
    /\ pc = "idle"
    /\ hist.run < MaxRuns
    /\ clock < Len(TimeTexts)
    /\ hist.faults < MaxFaults
    /\ \E inc \in BOOLEAN :
           mode' = [incremental |-> inc, client |-> FALSE, probe |-> "error"]
    /\ clock' = clock + 1
    /\ hist' = [hist EXCEPT !.run = @ + 1, !.faults = @ + 1, !.raised_in = "init"]
    /\ run_state' = [run_state EXCEPT !.memory = LoadPipelineState(run_state.disk)]
    /\ extracted' = NoData /\ transformed' = NoTables /\ loader' = IdleLoader
    /\ pc' = "failed"
    /\ UNCHANGED <<files, api, db, fetch>>

\* extract_all_data raises FileNotFoundError
ExtractFail ==
    /\ pc = "extract"
    /\ files.defect = "file_not_found"
    /\ hist' = [hist EXCEPT !.raised_in = "extract"]
    /\ pc' = "failed"
    /\ UNCHANGED <<env, clock, db, extracted, transformed, loader, fetch, run_state>>

\* transform_all_data raises KeyError
TransformFail ==
    /\ pc = "transform"
    /\ files.defect = "column_missing"
    /\ hist' = [hist EXCEPT !.raised_in = "transform"]
    /\ pc' = "failed"
    /\ UNCHANGED <<env, clock, db, extracted, transformed, loader, fetch, run_state>>

\* run_pipeline ends: the load timestamp when the load returned, then the
\* finally block with the time and the status of the run
EndRun ==
    /\ pc \in {"loaded", "failed"}
    /\ LET after_load == IF pc = "loaded"
                         THEN Checkpoint(run_state, "last_load_time", clock)
                         ELSE run_state
           timed == SetItem(after_load.memory, "last_run_time", Datetime(clock))
           state == SetItem(timed, "last_run_status", Text(RunStatus(pc = "failed")))
       IN  /\ run_state' = [memory |-> state,
                            disk |-> SavePipelineState(after_load.disk, state)]
           /\ hist' = [hist EXCEPT !.prev = db, !.prev_mode = mode,
                                   !.prev_ok = (pc = "loaded" /\ loader.failed = 0),
                                   !.saved = state]
    /\ pc' = "idle"
    /\ UNCHANGED <<env, clock, db, extracted, transformed, loader, fetch>>

Next ==
    \/ StartRun
    \/ InitFail
    \/ ExtractAll
    \/ ExtractFail
    \/ TransformAll
    \/ TransformFail
    \/ LoadBegin
    \/ LoadBatch
    \/ LoadCommit
    \/ EndRun

Spec == Init /\ [][Next]_vars

----------------------------------------------------------------------------
(* Properties of repeated runs *)

TimestampColumns == {"updated_at", "last_processed_at"}

SameButTimestamps(now, before) ==
    /\ DOMAIN now = DOMAIN before
    /\ \A k \in DOMAIN now : \A c \in DOMAIN now[k] \ TimestampColumns :
           now[k][c] = before[k][c]

FullRerunDone ==
    /\ hist.kind = "pipeline" /\ pc = "loaded" /\ hist.run >= 2
    /\ hist.prev_ok /\ loader.failed = 0
    /\ ~mode.incremental /\ ~hist.prev_mode.incremental
    /\ mode.client = hist.prev_mode.client

\* C10: re-running the whole pipeline in full mode on unchanged files and
\* unchanged enrichment responses is idempotent: after the second run the
\* organizations, people and jobs relations hold the same primary keys and
\* the same non-timestamp values as after the first run.
C10_FullRerunIdempotent ==
    FullRerunDone =>
        \A name \in Relations : SameButTimestamps(db[name], hist.prev[name])

----------------------------------------------------------------------------
(* SpecFounder: the founder-feature derivation at the end of load_all_data, *)
(* applied to every small set of merged tables and every stored             *)
(* founder_features relation                                                *)

MaxFounderJobs == 2

FounderOrgs ==
    {<<[uuid |-> Some("o1"), name |-> Some("Acme"), status |-> Some("acquired"),
        total_funding_usd |-> Some(1000000), category_list |-> Some("AI, SaaS")],
       [uuid |-> Some("o2"), name |-> Some("Beta"), status |-> Some("operating"),
        total_funding_usd |-> f, category_list |-> Null]>> :
     f \in {Null, Some(2000000)}}
FounderPeople ==
    <<[uuid |-> Some("p1"), name |-> Some("Ann"), featured_job_organization_uuid |-> Null],
      [uuid |-> Some("p2"), name |-> Some("Bob"), featured_job_organization_uuid |-> Null]>>

\* jobs as they come out of transform_jobs: file rows carry person_name,
\* rows built from the enrichment history do not
FounderJobKinds ==
    {<<Some("Founder"), Null>>, <<Some("CEO"), Some("founder")>>,
     <<Some("CEO"), Some("executive")>>}
FounderJobRows ==
    {[person_uuid |-> w[1], person_name |-> w[2], org_uuid |-> o,
      title |-> k[1], job_type |-> k[2]] :
     w \in {<<Some("p1"), Some("Ann")>>, <<Some("p1"), Null>>, <<Some("p2"), Some("Bob")>>},
     o \in {Null, Some("o1"), Some("o2"), Some("o9")},
     k \in FounderJobKinds}

\* a feature row an earlier run stored
OldFeature(person) ==
    [person_uuid |-> Some(person), total_companies_founded |-> 9,
     company_categories |-> {}, total_funding_raised |-> 0,
     num_aquisitions |-> 0, leadership_roles_count |-> 0]

InitFounder ==
    /\ fetch = NoFetch /\ run_state = NoRunState
    /\ mode = FullMode /\ clock = 2
    /\ files = NoFiles /\ api = NoApi /\ extracted = NoData
    /\ \E orgs \in FounderOrgs :
       \E jobs \in SeqsOf(FounderJobRows, 0, MaxFounderJobs) :
           transformed = ValidateForeignKeys(
               [organizations |-> orgs, people |-> FounderPeople,
                jobs |-> WithUuids(jobs, "j")])
    /\ \E ps \in SUBSET {"p1", "p2"} :
           db = [EmptyDb EXCEPT !.founder_features = [k \in ps |-> OldFeature(k)]]
    /\ loader = [status |-> "loading", failed |-> 0,
                 at |-> [table |-> Len(TableOrder) + 1, pos |-> 1]]
    /\ hist = [run |-> 0, kind |-> "founder", pre_load |-> db, faults |-> 0, skipped |-> {}]
    /\ pc = "load_batch"

NextFounder == LoadCommit

SpecFounder == InitFounder /\ [][NextFounder]_vars

----------------------------------------------------------------------------
(* Properties of the founder features *)

FounderDone == hist.kind = "founder" /\ pc = "loaded"

\* the feature rows derived in this run
DerivedFeatures ==
    TransformFounderData(Filter(transformed.jobs, IsFounderJob), transformed.organizations)

\* C11: after the founder-feature derivation of a run the founder_features
\* relation contains exactly the rows derived in that run; rows of an
\* earlier run that are not re-derived are gone, also when nothing is
\* derived.
C11_FeaturesFullyReplaced ==
    FounderDone =>
        /\ DOMAIN db.founder_features =
               {Val(f.person_uuid) : f \in Range(DerivedFeatures)}
        /\ \A f \in Range(DerivedFeatures) :
               db.founder_features[Val(f.person_uuid)] = f

FounderFlagged(j) ==
    \/ j.job_type = Some("founder")
    \/ j.title \in {Some("Founder"), Some("Co-founder & CEO")}

ResolvedOrgsOf(person) ==
    {o \in Range(transformed.organizations) :
        \E j \in Range(transformed.jobs) :
            /\ j.person_uuid = person /\ FounderFlagged(j)
            /\ j.org_uuid # Null /\ j.org_uuid = o.uuid}

RowsOf(person) ==
    {i \in 1..Len(DerivedFeatures) : DerivedFeatures[i].person_uuid = person}

\* C12: the derived features contain exactly one row for each person with a
\* founder-flagged job whose organization resolves, and no row for a person
\* all of whose founder-flagged jobs have a null or unresolved organization.
C12_OneRowPerFounder ==
    FounderDone =>
        \A person \in {Some("p1"), Some("p2")} :
            Cardinality(RowsOf(person)) = IF ResolvedOrgsOf(person) # {} THEN 1 ELSE 0

FundingOf(o) == IF o.total_funding_usd = Null THEN 0 ELSE Val(o.total_funding_usd)

RECURSIVE FundingSum(_)
FundingSum(S) ==
    IF S = {} THEN 0
    ELSE LET x == CHOOSE y \in S : TRUE IN FundingOf(x) + FundingSum(S \ {x})

\* C13: in every derived row total_companies_founded is the number of
\* distinct resolved organizations of the person's founder-flagged jobs,
\* total_funding_raised the sum of their funding with an absent amount as
\* zero, and num_aquisitions the number of them with status 'acquired'.
C13_FeatureValues ==
    FounderDone =>
        \A f \in Range(DerivedFeatures) :
            LET orgs == ResolvedOrgsOf(f.person_uuid)
            IN  /\ f.total_companies_founded = Cardinality(orgs)
                /\ f.total_funding_raised = FundingSum(orgs)
                /\ f.num_aquisitions =
                       Cardinality({o \in orgs : o.status = Some("acquired")})

\* C13 witness: a person with founder jobs at two organizations of funding
\* 1,000,000 and 2,000,000, one of them acquired, got 2, 3000000 and 1.
C13_Witness ==
    /\ FounderDone
    /\ Cardinality(ResolvedOrgsOf(Some("p1"))) = 2
    /\ transformed.organizations[2].total_funding_usd = Some(2000000)
    /\ "p1" \in DOMAIN db.founder_features
    /\ db.founder_features["p1"].total_companies_founded = 2
    /\ db.founder_features["p1"].total_funding_raised = 3000000
    /\ db.founder_features["p1"].num_aquisitions = 1

----------------------------------------------------------------------------
(* Properties of a load with failing writes *)

LoadDone == Loading /\ loader.status = "done"

\* the rows of a table whose insert was not skipped
KeptRows(name, key) ==
    {i \in 1..Len(transformed[name]) :
        transformed[name][i].uuid = Some(key) /\ <<name, i>> \notin hist.skipped}

LastOf(S) == CHOOSE i \in S : \A j \in S : j <= i

\* C16: when the insert of a row fails during an upsert batch, the row is
\* counted as failed and is not stored, the batch is not aborted, and every
\* other row of the batch is written and committed.
C16_FailedInsertSkipped ==
    LoadDone =>
        /\ loader.failed = Cardinality(hist.skipped)
        /\ \A name \in Relations : \A key \in TableKeys(transformed[name]) :
               IF KeptRows(name, key) = {}
               THEN key \notin DOMAIN db[name]
               ELSE /\ key \in DOMAIN db[name]
                    /\ \A c \in DOMAIN db[name][key] :
                           db[name][key][c] =
                               StoredValue(transformed[name][LastOf(KeptRows(name, key))], c)

\* C16 witness: in a batch of two organizations the insert of the first
\* failed and the second was stored.
C16_Witness ==
    /\ LoadDone
    /\ hist.skipped = {<<"organizations", 1>>}
    /\ Len(transformed.organizations) = 2
    /\ transformed.organizations[1].uuid = Some("o1")
    /\ transformed.organizations[2].uuid = Some("o2")
    /\ "o1" \notin DOMAIN db.organizations
    /\ "o2" \in DOMAIN db.organizations /\ "o2" \notin DOMAIN hist.pre_load.organizations

\* C17: founder-feature derivation starts only after the load of
\* organizations, people and jobs has committed; if that load raises, the
\* derivation is not invoked and founder_features is left unchanged.
C17_FeaturesOnlyAfterLoad ==
    Loading =>
        /\ db.founder_features # hist.pre_load.founder_features =>
               /\ loader.status = "done"
               /\ loader.at.table > Len(TableOrder)
        /\ loader.status = "raised" =>
               db.founder_features = hist.pre_load.founder_features

\* C17 witness: a load that had already committed organizations raised in a
\* later table, the merged tables held a founder with a resolved
\* organization, and founder_features was not touched.
C17_Witness ==
    /\ Loading /\ loader.status = "raised"
    /\ db.organizations # hist.pre_load.organizations
    /\ TransformFounderData(Filter(transformed.jobs, IsFounderJob),
                            transformed.organizations) # <<>>
    /\ db.founder_features = hist.pre_load.founder_features

----------------------------------------------------------------------------
(* Enrichment client: _make_request, get_organization_data,                 *)
(* batch_get_organization_data (batch_get_person_data is the same code)     *)

max_retries == 3

\* _make_request after a failed attempt: one more retry counted, and the
\* exception re-raised when the retries are used up
AfterFailureNoLimit(retries) == [retries |-> retries + 1, raise |-> FALSE]
AfterFailure(retries) ==
    [retries |-> retries + 1, raise |-> retries + 1 > max_retries]

\* the keys a batch submits: for domain in domains if domain
Submitted(keys) == Filter(keys, LAMBDA k : k # "")

\* the worker of one key: get_organization_data around _make_request
NewWorker == [state |-> "running", retries |-> 0, attempts |-> 0, data |-> Null]

\* the batch starts: one future per submitted key
SubmitBatch ==
    /\ pc = "fetch"
    /\ fetch.status = "called"
    /\ IF fetch.keys = <<>>
       THEN /\ fetch' = [fetch EXCEPT !.status = "returned"]
            /\ pc' = "fetched"
       ELSE /\ fetch' = [fetch EXCEPT
                  !.status = "running",
                  !.worker = [k \in Range(Submitted(fetch.keys)) |-> NewWorker]]
            /\ pc' = "fetch"
    /\ UNCHANGED <<env, clock, db, extracted, transformed, loader, run_state, hist>>

\* one request of one worker: the response, or a RequestException
Attempt(k) ==
    /\ pc = "fetch"
    /\ fetch.status = "running"
    /\ fetch.worker[k].state = "running"
    /\ \E outcome \in {"ok", "error"} :
        LET w == fetch.worker[k]
            a == AfterFailure(w.retries)
        IN  fetch' = [fetch EXCEPT !.worker[k] =
                IF outcome = "ok"
                THEN [w EXCEPT !.state = "done", !.attempts = @ + 1,
                               !.data = Some(api.org[k])]
                ELSE IF a.raise
                THEN [w EXCEPT !.state = "done", !.attempts = @ + 1,
                               !.retries = a.retries, !.data = Null]
                ELSE [w EXCEPT !.attempts = @ + 1, !.retries = a.retries]]
    /\ UNCHANGED <<pc, env, clock, db, extracted, transformed, loader, run_state, hist>>

\* as_completed yields a finished future: its record, when it has one,
\* enters the result mapping
Collect(k) ==
    /\ pc = "fetch"
    /\ fetch.status = "running"
    /\ fetch.worker[k].state = "done"
    /\ k \notin fetch.collected
    /\ fetch' = [fetch EXCEPT
           !.collected = @ \cup {k},
           !.results = IF fetch.worker[k].data # Null
                       THEN Append(@, <<k, Val(fetch.worker[k].data)>>) ELSE @]
    /\ UNCHANGED <<pc, env, clock, db, extracted, transformed, loader, run_state, hist>>

\* every future is collected: the batch returns the mapping
ReturnBatch ==
    /\ pc = "fetch"
    /\ fetch.status = "running"
    /\ fetch.collected = DOMAIN fetch.worker
    /\ fetch' = [fetch EXCEPT !.status = "returned"]
    /\ extracted' = [extracted EXCEPT !.organizations.api_data = fetch.results]
    /\ pc' = "fetched"
    /\ UNCHANGED <<env, clock, db, transformed, loader, run_state, hist>>

----------------------------------------------------------------------------
(* SpecFetch: one batch fetch over every small list of keys, under every    *)
(* interleaving of the workers and every pattern of failing requests        *)

MaxKeys == 2

FetchKeys == <<"a.com", "b.com", "c.com">>
FetchService == [k \in Range(FetchKeys) |-> [name |-> Some(k)]]

InitFetch ==
    /\ run_state = NoRunState
    /\ mode = FullMode /\ clock = 1
    /\ files = NoFiles /\ db = EmptyDb
    /\ api = [org |-> FetchService, person |-> NoService]
    /\ extracted = NoData /\ transformed = NoTables /\ loader = IdleLoader
    /\ \E n \in 0..MaxKeys : \E blank \in {<<>>, <<"">>} :
           fetch = [status |-> "called", keys |-> blank \o SubSeq(FetchKeys, 1, n),
                    worker |-> <<>>, collected |-> {}, results |-> <<>>]
    /\ hist = [run |-> 0, kind |-> "fetch"]
    /\ pc = "fetch"

NextFetch ==
    \/ SubmitBatch
    \/ \E k \in DOMAIN fetch.worker : Attempt(k)
    \/ \E k \in DOMAIN fetch.worker : Collect(k)
    \/ ReturnBatch

SpecFetch == InitFetch /\ [][NextFetch]_vars

----------------------------------------------------------------------------
(* Properties of the batch fetch *)

Fetching == hist.kind = "fetch"

ResultKeys == {fetch.results[i][1] : i \in 1..Len(fetch.results)}

\* C14: in a batch fetch each key is requested at most 1 + max_retries
\* times; a key whose every attempt failed is absent from the result
\* mapping and the record of every key whose lookup succeeded is returned:
\* the batch never raises and one key's failure removes no other key's
\* result.
C14_BatchSurvivesFailures ==
    Fetching =>
        /\ fetch.status \in {"called", "running", "returned"}
        /\ fetch.status # "called" =>
               \A k \in DOMAIN fetch.worker : fetch.worker[k].attempts <= 1 + max_retries
        /\ fetch.status = "returned" =>
               /\ \A k \in DOMAIN fetch.worker :
                      k \in ResultKeys <=> fetch.worker[k].data # Null
               /\ \A i \in 1..Len(fetch.results) :
                      fetch.results[i][2] = api.org[fetch.results[i][1]]
               /\ \A i, j \in 1..Len(fetch.results) :
                      fetch.results[i][1] = fetch.results[j][1] => i = j
               /\ \A k \in DOMAIN fetch.worker :
                      fetch.worker[k].data = Null => fetch.worker[k].attempts = 1 + max_retries

\* C14 witness: a batch returned in which one key failed four times and is
\* absent while the other, answered on a retry, is in the mapping.
C14_Witness ==
    /\ Fetching /\ fetch.status = "returned"
    /\ DOMAIN fetch.worker = {"a.com", "b.com"}
    /\ fetch.worker["a.com"].attempts = 4 /\ fetch.worker["a.com"].data = Null
    /\ fetch.worker["b.com"].attempts = 2
    /\ ResultKeys = {"b.com"}

----------------------------------------------------------------------------
(* Properties of a run whose client construction failed (under Spec) *)

EntityTables == {"organizations", "people"}

\* the load of a run returned, and the client of that run was refused
LoadedWithoutAuth ==
    /\ hist.kind = "pipeline" /\ pc = "loaded"
    /\ mode.probe # "authenticated"

\* C15: when the authentication probe fails or answers anything but
\* Authenticated = true the construction of the client raises; the run goes
\* through extract, transform and load with no client, both enrichment
\* mappings and the enrichment job history are empty, and every
\* organization and person row the run persists is tagged "csv".
C15_NoClientMeansCsvOnly ==
    (hist.kind = "pipeline" /\ pc # "idle" /\ mode.probe # "authenticated") =>
        /\ ~mode.client
        /\ extracted # NoData =>
               /\ extracted.organizations.api_data = <<>>
               /\ extracted.people.api_data = <<>>
               /\ extracted.api_job_history = <<>>
        /\ transformed # NoTables =>
               \A name \in EntityTables : \A i \in DOMAIN transformed[name] :
                   transformed[name][i].source = Some("csv")
        /\ pc = "loaded" =>
               \A name \in EntityTables :
                   \A k \in TableKeys(transformed[name]) \cap DOMAIN db[name] :
                       db[name][k].source = Some("csv")

C15_Witness ==
    /\ LoadedWithoutAuth
    /\ mode.probe = "not_authenticated"
    /\ api.org # NoService /\ api.person # NoService
    /\ loader.failed = 0
    /\ transformed.organizations # <<>> /\ transformed.people # <<>>
    /\ TableKeys(transformed.organizations) \subseteq DOMAIN db.organizations
    /\ TableKeys(transformed.people) \subseteq DOMAIN db.people

----------------------------------------------------------------------------
(* Properties of the run-state record (under Spec) *)

Piped == hist.kind = "pipeline"

\* an exception reached the handler of run_pipeline in the current run
Raised == hist.raised_in # "none" \/ loader.status = "raised"

\* the run is over: its handler and its finally block are done
RunEnded == Piped /\ pc = "idle" /\ hist.run > 0

\* the record in the file save_pipeline_state writes
SavedRecord == run_state.disk[SavePath]

\* C18: every run, whichever of initialization, extract, transform or load
\* raises, ends by writing the run-state record with last_run_time set and
\* last_run_status 'error' when an exception reached the orchestrator and
\* 'success' otherwise; no stage after the failing one is executed.
C18_RunAlwaysRecorded ==
    /\ RunEnded =>
           /\ SavedRecord # Null
           /\ {"last_run_time", "last_run_status"} \subseteq DOMAIN Val(SavedRecord)
           /\ Val(SavedRecord).last_run_time = Text(IsoFormat(clock))
           /\ Val(SavedRecord).last_run_status =
                  Text(IF Raised THEN "error" ELSE "success")
    /\ (Piped /\ pc \in {"failed", "idle"} /\ hist.run > 0) =>
           /\ hist.raised_in = "init" => extracted = NoData
           /\ hist.raised_in \in {"init", "extract"} => transformed = NoTables
           /\ hist.raised_in \in {"init", "extract", "transform"} =>
                  loader = IdleLoader /\ db = hist.prev
           /\ loader.status = "raised" => db.founder_features = hist.pre_load.founder_features

C18_Witness ==
    /\ RunEnded /\ hist.run = 2
    /\ hist.raised_in = "none" /\ loader.status = "raised"
    /\ Val(SavedRecord).last_run_status = Text("error")
    /\ "last_transform_time" \in DOMAIN Val(SavedRecord)
    /\ "last_load_time" \notin DOMAIN Val(SavedRecord)

\* C19: the record written at the end of run N is the record read at the
\* start of run N+1, with the saved keys and the saved values.
C19_RecordReadBack ==
    (Piped /\ hist.run >= 2 /\ pc \in {"extract", "failed"}
           /\ hist.raised_in \in {"none", "init"} /\ extracted = NoData) =>
        run_state.memory = hist.saved

----------------------------------------------------------------------------
(* Properties of the last-processed timestamp (under Spec) *)

\* the stored last_processed_at of every organization and person of
\* before is still set in after, and no earlier
NotEarlier(before, after) ==
    \A name \in EntityTables : \A k \in DOMAIN before[name] :
        /\ k \in DOMAIN after[name]
        /\ after[name][k].last_processed_at # Null
        /\ TimeOf(after[name][k].last_processed_at) >=
               TimeOf(before[name][k].last_processed_at)

\* C20: for every organization and person key, over any sequence of full
\* and incremental runs, the stored last_processed_at never decreases and
\* is never reset to null: every step of a run leaves it set and no
\* earlier than it was.
C20_LastProcessedMonotone ==
    [][Piped => NotEarlier(db, db')]_vars

\* a second run rewrote a stored organization with a later timestamp
C20_Witness ==
    /\ Piped /\ pc = "loaded" /\ hist.run = 2
    /\ \E k \in DOMAIN hist.prev.organizations :
           /\ k \in DOMAIN db.organizations
           /\ TimeOf(hist.prev.organizations[k].last_processed_at) > 0
           /\ TimeOf(db.organizations[k].last_processed_at) >
                  TimeOf(hist.prev.organizations[k].last_processed_at)
    /\ \E k \in DOMAIN hist.prev.people :
           /\ k \in DOMAIN db.people
           /\ mode.incremental
           /\ db.people[k].last_processed_at = hist.prev.people[k].last_processed_at
           /\ db.people[k].last_processed_at # Null

----------------------------------------------------------------------------
(* Properties of the stored attributes across runs (under Spec) *)

\* the merged table of the run carries column c on a row with key k
Carries(df, k, c) ==
    \E i \in DOMAIN df : df[i].uuid = Some(k) /\ c \in DOMAIN df[i]

\* C21: upserting a row whose key exists keeps what the store accumulated:
\* a stored non-null column of an organization or a person changes only
\* when the incoming table carries that column.
C21_UpsertKeepsAttributes ==
    (Piped /\ pc = "loaded") =>
        \A name \in EntityTables :
            \A k \in DOMAIN hist.prev[name] \cap DOMAIN db[name] :
                \A c \in DOMAIN db[name][k] :
                    (/\ hist.prev[name][k][c] # Null
                     /\ db[name][k][c] # hist.prev[name][k][c])
                        => Carries(transformed[name], k, c)

\* the file row was stored by an earlier run and has not been updated since
ProcessedBefore(row, relation) ==
    /\ ~IsNa(row.uuid) /\ Val(row.uuid) \in DOMAIN relation
    /\ ~IsNa(row.updated_at)
    /\ TimeOf(relation[Val(row.uuid)].last_processed_at) > 0
    /\ Val(row.updated_at) <= TimeOf(relation[Val(row.uuid)].last_processed_at)

\* C22: in incremental mode an entity stored by an earlier run whose file
\* row's updated_at is not later than its stored last_processed_at is left
\* out of the next run, whether or not the earlier run enriched it.
C22_IncrementalSkipsProcessed ==
    (Piped /\ pc = "transform" /\ mode.incremental) =>
        \A name \in EntityTables :
            \A i \in DOMAIN extracted[name].csv_data :
                ~ProcessedBefore(extracted[name].csv_data[i], db[name])

----------------------------------------------------------------------------
(* Properties of a full run on an empty store (under Spec) *)

\* the load of a full run that started on an empty store returned, and no
\* write was rejected
FirstFullRun ==
    /\ Piped /\ pc = "loaded"
    /\ ~mode.incremental /\ hist.pre_load = EmptyDb
    /\ loader.failed = 0

FileOrgKeys == {r.uuid : r \in Range(files.organizations)}
FilePeopleKeys == {r.uuid : r \in Range(files.people)}

\* the file jobs whose person is a file person
ResolvedFileJobs == {j \in Range(files.jobs) : j.person_uuid \in FilePeopleKeys}

\* the persisted relations hold what the files give: every organization,
\* every person, the jobs with a resolving person (a dangling organization
\* reference nulled), one feature row per founder with a resolved organization
FileCounts ==
    /\ Cardinality(DOMAIN db.organizations) = Len(files.organizations)
    /\ Cardinality(DOMAIN db.people) = Len(files.people)
    /\ DOMAIN db.jobs = {Val(j.uuid) : j \in ResolvedFileJobs}
    /\ \A j \in ResolvedFileJobs :
           Val(j.uuid) \in DOMAIN db.jobs =>
               db.jobs[Val(j.uuid)].org_uuid =
                   IF j.org_uuid \in FileOrgKeys THEN j.org_uuid ELSE Null
    /\ DOMAIN db.founder_features =
           {Val(j.person_uuid) :
               j \in {x \in ResolvedFileJobs :
                          FounderFlagged(x) /\ x.org_uuid \in FileOrgKeys}}

----------------------------------------------------------------------------
(* Properties of the job rows under the completion orders of the lookups *)
(* (under Spec)                                                           *)

\* the job rows transform_all_data gives when the person lookups of this
\* run complete in the order of people_api
JobsUnderOrder(people_api) ==
    TransformAllData([extracted EXCEPT !.people.api_data = people_api,
                                       !.api_job_history = JobHistory(people_api)],
                     clock).jobs

\* the mappings batch_get_person_data can return in this run
PersonLookupOrders ==
    IF mode.client
    THEN BatchResults(LookupKeys(extracted.people.csv_data, "linkedin_url"), api.person)
    ELSE {<<>>}

\* C26: the generated uuid of every synthetic job row, and so the set of job
\* rows a run loads, is the same for every order in which the concurrent
\* person lookups complete.
C26_JobKeysIgnoreCompletionOrder ==
    (Piped /\ pc = "load") =>
        \A people_api \in PersonLookupOrders :
            Range(JobsUnderOrder(people_api)) = Range(transformed.jobs)

----------------------------------------------------------------------------
(* SpecDelta: runs of the whole pipeline over files that are edited between *)
(* runs, without an enrichment service                                      *)

EditableFiles == {"organizations", "people", "jobs"}

\* the file of a table is written again between two runs: its rows carry a
\* later updated_at
EditFile(name) ==
    /\ pc = "idle" /\ hist.run >= 1
    /\ clock < Len(TimeTexts)
    /\ files' = [files EXCEPT ![name] =
           MapSeq(@, LAMBDA r : [r EXCEPT !.updated_at = Some(TimeTexts[clock + 1])])]
    /\ files'[name] # files[name]
    /\ UNCHANGED <<mode, api, clock, db, extracted, transformed, loader, hist, fetch,
                   run_state, pc>>

\* an organization service that answers the domain it is asked about in any
\* letter case and with surrounding blanks (the request body carries the
\* domain as it was read from the file)
AnySpellingOrgService ==
    [k \in {"a.com", "A.com "} |-> OrgService["a.com"]]

InitDelta ==
    /\ fetch = NoFetch /\ run_state = NoRunState
    /\ files \in {f \in PipeFiles : f.defect = "none"}
    /\ api \in [org : {NoService, AnySpellingOrgService}, person : {NoService}]
    /\ mode = FullMode /\ clock = 1
    /\ db = EmptyDb
    /\ extracted = NoData /\ transformed = NoTables /\ loader = IdleLoader
    /\ hist = [run |-> 0, kind |-> "pipeline", pre_load |-> EmptyDb, faults |-> 0, skipped |-> {},
               prev |-> EmptyDb, prev_mode |-> FullMode, prev_ok |-> FALSE,
               raised_in |-> "none", saved |-> <<>>]
    /\ pc = "idle"

NextDelta ==
    \/ StartRun
    \/ ExtractAll
    \/ TransformAll
    \/ LoadBegin
    \/ LoadBatch
    \/ LoadCommit
    \/ EndRun
    \/ \E name \in EditableFiles : EditFile(name)

SpecDelta == InitDelta /\ [][NextDelta]_vars

\* the enrichment record returned for the domain read from a file row
FetchedFor(row) ==
    {kv[2] : kv \in {x \in Range(extracted.organizations.api_data) :
                        ~IsNa(row.domain) /\ x[1] = Val(row.domain)}}

\* C30: every enrichment record fetched for an organization is merged into
\* the row it was fetched for: when a record was returned for the domain
\* read from a file row, the row is tagged 'csv+api' after transform and
\* every field of the record whose cell is null or absent in the file row
\* holds the record's value, whatever the letter case or the surrounding
\* whitespace of the domain in the file.
C30_FetchedRecordIsMerged ==
    (Piped /\ pc = "load") =>
        \A row \in Range(extracted.organizations.csv_data) :
        \A rec \in FetchedFor(row) :
        \A out \in Range(transformed.organizations) :
            out.uuid = row.uuid =>
                /\ out.source = Some("csv+api")
                /\ \A f \in DOMAIN rec :
                       IsNa(Get(row, f)) => Get(out, f) = rec[f]

----------------------------------------------------------------------------
(* Properties of stored references across runs (under SpecDelta) *)

\* C27: an incremental run never degrades a stored reference: a persisted
\* job whose org_uuid resolved to a persisted organization before the run
\* still has that org_uuid after the run, also when the job is in the
\* processed delta and its organization is not.
C27_IncrementalKeepsReferences ==
    (Piped /\ pc = "loaded" /\ mode.incremental) =>
        \A k \in DOMAIN hist.pre_load.jobs :
            LET old == hist.pre_load.jobs[k]
            IN  (old.org_uuid # Null
                 /\ Val(old.org_uuid) \in DOMAIN hist.pre_load.organizations) =>
                    /\ k \in DOMAIN db.jobs
                    /\ db.jobs[k].org_uuid = old.org_uuid

====
